---- MODULE Spec2Model ----
(***************************************************************************)
(* Prism: Application loop (src/src/prism.cpp), Window frame protocol      *)
(* (src/src/window.cpp) and the GPU side the frame protocol talks to.      *)
(*                                                                         *)
(* The program is single threaded: one position `pc` walks through         *)
(* Application::run, Application::cullClosedWindowsExitOnMainDeath,        *)
(* Window::render, Window::frameRender and Window::framePresent.  The only *)
(* concurrent party is the GPU, which completes submitted work on its own  *)
(* (GpuComplete).  Driver calls are inputs: each call draws its VkResult   *)
(* from the set of results the call can return.                            *)
(***************************************************************************)
EXTENDS Integers, Sequences, FiniteSets, TLC

----------------------------------------------------------------------------
(* Bounds of the model *)

\* windows the application adds in the registry-focused specification
MaxWindows == 3
\* windows the application adds in the frame-protocol specification
FrameWindows == 1
\* deferred cleanup actions application logic enqueues in one run
MaxActions == 2
\* largest magnitude of the status codes handed to CheckVkResult on its own
MaxCode == 30
\* physical devices vkEnumeratePhysicalDevices may list
MaxDevices == 3
\* images a swapchain may hold beyond the minImageCount it was asked for
ExtraImages == 1
\* queue families a physical device may have
MaxFamilies == 3
MaxEvents == 1     \* a callback runs while fewer than this many events are queued
MaxShutdowns == 2  \* calls of Renderer::shutdown on one Renderer

----------------------------------------------------------------------------
(* Program constants *)

\* Window::minImageCount
MinImageCount == 2

\* VkResult codes used by the frame protocol (sign is what CheckVkResult reads)
VK_SUCCESS == 0
VK_SUBOPTIMAL_KHR == 1000001003
VK_ERROR_OUT_OF_DATE_KHR == -1000001004
VK_ERROR_DEVICE_LOST == -4

\* VkPhysicalDeviceType of a discrete GPU, and all the values of the enum
VK_PHYSICAL_DEVICE_TYPE_DISCRETE_GPU == 2
DeviceTypes == 0..4

\* the null ImGuiContext* / no window
NullContext == 0

\* Renderer::queueFamilyIndex before a family is chosen: UINT32_MAX, written
\* as the 32-bit pattern read as a signed number (it is no family's index)
UINT32_MAX == -1
\* VkQueueFlagBits: graphics is bit 0; queueFlags over the low three bits
\* (graphics, compute, transfer)
VK_QUEUE_GRAPHICS_BIT == 1
QueueFlags == 0..7

\* the Vulkan objects a window owns: the surface of glfwCreateWindowSurface and
\* what ImGui_ImplVulkanH_CreateOrResizeWindow creates
ResourceKinds == {"surface", "swapchain", "commandPools", "fences", "semaphores"}

WinIds == 1..(IF MaxWindows > FrameWindows THEN MaxWindows ELSE FrameWindows)
ActionIds == 1..MaxActions

\* results of a driver call that has no recoverable code
CallResults == {VK_SUCCESS, VK_ERROR_DEVICE_LOST}
\* status codes a caller of CheckVkResult may hand it
ResultCodes == (-MaxCode..MaxCode) \cup
    {VK_SUCCESS, VK_SUBOPTIMAL_KHR, VK_ERROR_OUT_OF_DATE_KHR, VK_ERROR_DEVICE_LOST}
\* results of vkAcquireNextImageKHR / vkQueuePresentKHR
SwapchainResults ==
    {VK_SUCCESS, VK_SUBOPTIMAL_KHR, VK_ERROR_OUT_OF_DATE_KHR, VK_ERROR_DEVICE_LOST}

VARIABLES
    pc,                   \* position of the single thread
    running,              \* Application::running
    renderer,             \* Application::renderer is non-null
    appWindows,           \* Application::appWindows (sequence of window ids)
    it,                   \* position of the range-for in Application::run
    backupContext,        \* Window::render's local backupContext
    currentContext,       \* ImGui's current context (owner window id, or NullContext)
    wstate,               \* per window: "none", "alive", "destroyed"
    glfwShouldClose,      \* per window: GLFW's should-close flag
    swapchainNeedRebuild, \* per window: Window::swapchainNeedRebuild
    ImageCount,           \* per window: imguiWindow->ImageCount
    SemaphoreIndex,       \* per window: imguiWindow->SemaphoreIndex
    FrameIndex,           \* per window: imguiWindow->FrameIndex
    resourceFreeQueue,    \* per window: Window::resourceFreeQueue (slot i at i+1)
    imguiContext,         \* per window: Window::imguiContext is a live context
    fence,                \* per window, per slot: "signaled", "unsignaled", "pending"
    busy,                 \* per window, per slot: the GPU still executes its command buffer
    log,                  \* driver calls of the render() in progress, with results
    rendered,             \* windows whose render() was called in this tick, in call order
    beforeCull,           \* registry when this tick's cull started
    closeAtCull,          \* windows with close requested when this tick's cull started
    staleReported,        \* per window: its latest render() saw a staleness code
    indexAtAcquire,       \* <<FrameIndex, SemaphoreIndex>> before this render()'s acquire
    executed,             \* cleanup actions in the order they ran
    waited,               \* actions whose slot's fence-wait succeeded after the enqueue
    actSlot,              \* per action: <<window, slot>> it was enqueued in
    nextAction,           \* next unused action id
    capacity,             \* appWindows.capacity()
    itEnd,                \* the end iterator the range-for of Application::run cached
    itValid,              \* the range-for's iterators point into appWindows' buffer
    setupCalls,           \* calls the latest Window::Window made to set its surface up
    dtorCalls,            \* calls the latest Window::~Window made
    gpuResources,         \* per window: the Vulkan objects of the window that are live
    inputEvents,          \* per window: the input event queue of the window's ImGui context
    delivered,            \* the GLFW input callback glfwPollEvents dispatched last:
                          \* <<window, kind, cursorDisabled, flag>>, <<>> outside it
    imageAcquired,        \* per window, per semaphore index: ImageAcquiredSemaphore has
                          \* a signal pending that nothing has waited on
    renderComplete,       \* the same for RenderCompleteSemaphore
    handles,              \* the Renderer's Vulkan handles that are not VK_NULL_HANDLE
    vulkanDebugReport,    \* the build defines VULKAN_DEBUG_REPORT
    shutdownCalls         \* per Renderer::shutdown call so far: the driver calls it made

appVars == <<pc, running, renderer, appWindows, it, backupContext, currentContext>>
winVars == <<wstate, glfwShouldClose, swapchainNeedRebuild, ImageCount,
             SemaphoreIndex, FrameIndex, resourceFreeQueue, imguiContext>>
gpuVars == <<fence, busy>>
tickVars == <<log, rendered, beforeCull, closeAtCull, staleReported, indexAtAcquire>>
actVars == <<executed, waited, actSlot, nextAction>>
iterVars == <<capacity, itEnd, itValid>>
ctorVars == <<setupCalls, dtorCalls, gpuResources>>
inputVars == <<inputEvents, delivered>>
semVars == <<imageAcquired, renderComplete>>
rendVars == <<handles, vulkanDebugReport, shutdownCalls>>
vars == <<appVars, winVars, gpuVars, tickVars, actVars, iterVars, ctorVars, inputVars, semVars,
          rendVars>>

----------------------------------------------------------------------------
(* Helpers *)

Range(s) == {s[i] : i \in 1..Len(s)}

\* erase(begin()) where the source has erase(begin() + i)
RemoveAtFront(s, i) == Tail(s)

\* appWindows.erase(appWindows.begin() + i), i 1-based
RemoveAt(s, i) == SubSeq(s, 1, i - 1) \o SubSeq(s, i + 1, Len(s))

\* the window the range-for of Application::run is at
Cur == appWindows[it]

\* imguiWindow->SemaphoreCount (the helper allocates ImageCount + 1 semaphore pairs)
SemaphoreCount(w) == ImageCount[w] + 1


\* cleanup actions queued in any slot of window w
QueuedIn(w) ==
    UNION {Range(resourceFreeQueue[w][s]) : s \in 1..Len(resourceFreeQueue[w])}

\* CheckVkResult taking every non-zero code for fatal
CheckVkResultAbortsOnAny(result) ==
    IF result = 0 THEN "ok" ELSE "abort"

\* Renderer::CheckVkResult: what the process does with a driver status code
CheckVkResult(result) ==
    IF result = 0 THEN "ok"
    ELSE IF result < 0 THEN "abort"
    ELSE "logged"

\* the two codes frameRender and framePresent treat as "swapchain needs rebuild"
IsStale(err) == err = VK_ERROR_OUT_OF_DATE_KHR \/ err = VK_SUBOPTIMAL_KHR

\* vkDeviceWaitIdle returns once every submitted batch has completed: the
\* fences those batches signal, and no command buffer left executing
DeviceIdle(f) ==
    [w \in WinIds |-> [s \in DOMAIN f[w] |->
        IF f[w][s] = "pending" THEN "signaled" ELSE f[w][s]]]

NothingBusy == [w \in WinIds |-> [s \in DOMAIN busy[w] |-> FALSE]]

\* the current context ~Window leaves behind, entered with current context cc:
\* backup cc, make the window's context current, ImGui::DestroyContext() (which
\* leaves no current context), then restore the backup when it is non-null
WindowDtorContext(w, cc) ==
    LET backup == cc
        afterDestroy == NullContext
    IN  IF backup # NullContext THEN backup ELSE afterDestroy

\* the calls of Window::~Window, in order.  haveRenderer: whether
\* Application::Get().getRenderer() still holds a Renderer; when it does not,
\* a destructor that gets past getDevice() hands vkDeviceWaitIdle no device.
\* None of the calls destroys the window's surface, swapchain, command pools,
\* fences or semaphores: delete imguiWindow frees the helper struct only.
WindowDtor(haveRenderer) ==
    <<IF haveRenderer THEN "vkDeviceWaitIdle(device)" ELSE "vkDeviceWaitIdle(no device)",
      "ImGui_ImplVulkan_Shutdown", "ImGui_ImplGlfw_Shutdown", "DestroyContext",
      "glfwDestroyWindow", "delete imguiWindow">>

RECURSIVE DtorContexts(_, _)
DtorContexts(ws, cc) ==
    IF ws = <<>> THEN cc
    ELSE DtorContexts(Tail(ws), WindowDtorContext(Head(ws), cc))

----------------------------------------------------------------------------
(* Application *)

Init ==
    /\ pc = "idle"
    /\ running = TRUE
    /\ renderer \in BOOLEAN        \* Application::init: created unless GLFW/Vulkan is missing
    /\ appWindows = <<>>
    /\ it = 1
    /\ backupContext = NullContext
    /\ currentContext = NullContext
    /\ wstate = [w \in WinIds |-> "none"]
    /\ glfwShouldClose = [w \in WinIds |-> FALSE]
    /\ swapchainNeedRebuild = [w \in WinIds |-> FALSE]
    /\ ImageCount = [w \in WinIds |-> MinImageCount]
    /\ SemaphoreIndex = [w \in WinIds |-> 0]
    /\ FrameIndex = [w \in WinIds |-> 0]
    /\ resourceFreeQueue = [w \in WinIds |-> <<>>]
    /\ imguiContext = [w \in WinIds |-> FALSE]
    /\ fence = [w \in WinIds |-> <<>>]
    /\ busy = [w \in WinIds |-> <<>>]
    /\ log = <<>>
    /\ rendered = <<>>
    /\ beforeCull = <<>>
    /\ closeAtCull = {}
    /\ staleReported = [w \in WinIds |-> FALSE]
    /\ indexAtAcquire = <<0, 0>>
    /\ executed = <<>>
    /\ waited = {}
    /\ actSlot = [a \in ActionIds |-> <<0, 0>>]
    /\ nextAction = 1
    /\ capacity = 0
    /\ itEnd = 0
    /\ itValid = TRUE
    /\ setupCalls = <<>>
    /\ dtorCalls = <<>>
    /\ gpuResources = [w \in WinIds |-> {}]
    /\ inputEvents = [w \in WinIds |-> <<>>]
    /\ delivered = <<>>
    /\ handles = {}
    /\ vulkanDebugReport = FALSE
    /\ shutdownCalls = <<>>
    /\ imageAcquired = [w \in WinIds |-> <<>>]
    /\ renderComplete = [w \in WinIds |-> <<>>]

\* FrameSemaphores of a window with n images, none signaled.  The program
\* never reads a semaphore's state (the driver does); a specification that does
\* not follow the semaphores keeps none.
Semaphores(n, sems) == IF sems THEN [s \in 1..(n + 1) |-> FALSE] ELSE <<>>

\* setupWindow going on whatever vkGetPhysicalDeviceSurfaceSupportKHR said
setupWindowNoWsiTest(wsi) ==
    [calls |-> <<IF wsi THEN "surfaceSupport=VK_TRUE" ELSE "surfaceSupport=VK_FALSE",
                 "selectSurfaceFormat", "selectPresentMode", "createOrResizeWindow">>,
     aborts |-> FALSE]

\* Renderer::setupWindow, given whether the device and queue family can present
\* to the surface: the calls it makes, in order, and whether it aborts
setupWindow(wsi) ==
    IF wsi
    THEN [calls |-> <<"surfaceSupport=VK_TRUE", "selectSurfaceFormat",
                      "selectPresentMode", "createOrResizeWindow">>,
          aborts |-> FALSE]
    ELSE [calls |-> <<"surfaceSupport=VK_FALSE">>, aborts |-> TRUE]

\* the capacity std::vector grows to when emplace_back finds it full (doubling)
Grow(cap) == IF cap = 0 THEN 1 ELSE 2 * cap

\* Application::addWindow<T>(settings): make_shared<T> runs Window::Window, then
\* emplace_back, which moves the registry to a new buffer when it is full.
\* at: where application logic calls it from (before run(), or inside a hook);
\* limit: how many windows the application creates; counts: the image counts
\* the swapchain may come back with.
addWindow(at, limit, counts, sems) ==
    /\ pc \in at
    /\ Cardinality({w \in WinIds : wstate[w] # "none"}) < limit
    /\ LET w == Cardinality({x \in WinIds : wstate[x] # "none"}) + 1 IN
       IF ~renderer
       THEN \* Window::Window dereferences the null renderer
            /\ pc' = "crashed"
            /\ UNCHANGED <<running, renderer, appWindows, it, backupContext,
                           currentContext, winVars, gpuVars, tickVars, actVars,
                           iterVars, ctorVars, inputVars, semVars, rendVars>>
       ELSE \E err \in CallResults, wsi \in BOOLEAN, n \in counts :
            LET setup == setupWindow(wsi) IN
            IF CheckVkResult(err) = "abort"
            THEN \* glfwCreateWindowSurface failed
                 /\ pc' = "aborted"
                 /\ setupCalls' = <<"createSurface">>
                 /\ UNCHANGED <<dtorCalls, gpuResources, inputVars>>
                 /\ UNCHANGED <<running, renderer, appWindows, it, backupContext,
                                currentContext, winVars, gpuVars, tickVars, actVars,
                                iterVars, semVars, rendVars>>
            ELSE IF setup.aborts
            THEN \* Renderer::setupWindow: no WSI support
                 /\ pc' = "aborted"
                 /\ setupCalls' = <<"createSurface">> \o setup.calls
                 /\ UNCHANGED <<dtorCalls, gpuResources, inputVars>>
                 /\ UNCHANGED <<running, renderer, appWindows, it, backupContext,
                                currentContext, winVars, gpuVars, tickVars, actVars,
                                iterVars, semVars, rendVars>>
            ELSE /\ setupCalls' = <<"createSurface">> \o setup.calls
                 /\ gpuResources' = [gpuResources EXCEPT ![w] = ResourceKinds]
                 /\ UNCHANGED <<dtorCalls, inputVars, rendVars>>
                 /\ wstate' = [wstate EXCEPT ![w] = "alive"]
                 /\ ImageCount' = [ImageCount EXCEPT ![w] = n]
                 /\ fence' = [fence EXCEPT ![w] = [s \in 1..n |-> "signaled"]]
                 /\ busy' = [busy EXCEPT ![w] = [s \in 1..n |-> FALSE]]
                 /\ imageAcquired' =
                        [imageAcquired EXCEPT ![w] = Semaphores(n, sems)]
                 /\ renderComplete' =
                        [renderComplete EXCEPT ![w] = Semaphores(n, sems)]
                 /\ resourceFreeQueue' =
                        [resourceFreeQueue EXCEPT ![w] = [s \in 1..MinImageCount |-> <<>>]]
                 /\ imguiContext' = [imguiContext EXCEPT ![w] = TRUE]
                 /\ currentContext' =
                        (LET backupImGuiContext == currentContext IN
                         IF backupImGuiContext # NullContext
                         THEN backupImGuiContext ELSE w)
                 /\ appWindows' = Append(appWindows, w)
                 /\ capacity' = IF Len(appWindows) = capacity THEN Grow(capacity)
                                ELSE capacity
                 /\ itValid' = IF pc = "hooks" /\ Len(appWindows) = capacity
                               THEN FALSE ELSE itValid
                 /\ UNCHANGED <<pc, running, renderer, it, backupContext,
                                glfwShouldClose, swapchainNeedRebuild, SemaphoreIndex,
                                FrameIndex, tickVars, actVars, itEnd>>

\* run() without its entry test: the loop body runs once before the flag is read
runWithoutEntryTest ==
    /\ pc = "idle"
    /\ pc' = "poll"
    /\ UNCHANGED running
    /\ UNCHANGED <<renderer, appWindows, it, backupContext, currentContext,
                   winVars, gpuVars, tickVars, actVars>>
    /\ UNCHANGED <<iterVars, ctorVars, inputVars, semVars, rendVars>>

\* run() that sets the running flag on entry
runRestarts ==
    /\ pc = "idle"
    /\ pc' = "poll"
    /\ running' = TRUE
    /\ UNCHANGED <<renderer, appWindows, it, backupContext, currentContext,
                   winVars, gpuVars, tickVars, actVars>>
    /\ UNCHANGED <<iterVars, ctorVars, inputVars, semVars, rendVars>>

\* Application::run, entry: no-op when already stopped, else the first loop test
run ==
    /\ pc = "idle"
    /\ pc' = IF ~running THEN "returned" ELSE "poll"
    /\ UNCHANGED <<running, renderer, appWindows, it, backupContext, currentContext,
                   winVars, gpuVars, tickVars, actVars>>
    /\ UNCHANGED <<iterVars, ctorVars, inputVars, semVars, rendVars>>

\* Application::stop, called by application logic (before run, or from a hook)
stop ==
    /\ pc \in {"idle", "hooks"}
    /\ running
    /\ running' = FALSE
    /\ UNCHANGED <<pc, renderer, appWindows, it, backupContext, currentContext,
                   winVars, gpuVars, tickVars, actVars>>
    /\ UNCHANGED <<iterVars, ctorVars, inputVars, semVars, rendVars>>

\* Window::close, called by application logic on a window of the registry
close(w) ==
    /\ pc \in {"idle", "hooks"}
    /\ w \in Range(appWindows)
    /\ ~glfwShouldClose[w]
    /\ glfwShouldClose' = [glfwShouldClose EXCEPT ![w] = TRUE]
    /\ UNCHANGED <<appVars, wstate, swapchainNeedRebuild, ImageCount, SemaphoreIndex,
                   FrameIndex, resourceFreeQueue, imguiContext, gpuVars, tickVars,
                   actVars>>
    /\ UNCHANGED <<iterVars, ctorVars, inputVars, semVars, rendVars>>

\* glfwPollEvents at the top of a tick: the user may have asked any windows to
\* close; when it returns, no input callback is being dispatched any more
glfwPollEvents ==
    /\ pc = "poll"
    /\ \E S \in SUBSET Range(appWindows) :
          glfwShouldClose' = [w \in WinIds |-> glfwShouldClose[w] \/ w \in S]
    /\ pc' = "cull"
    /\ rendered' = <<>>
    /\ UNCHANGED <<running, renderer, appWindows, it, backupContext, currentContext,
                   wstate, swapchainNeedRebuild, ImageCount, SemaphoreIndex,
                   FrameIndex, resourceFreeQueue, imguiContext, gpuVars, log,
                   beforeCull, closeAtCull, staleReported, indexAtAcquire, actVars>>
    /\ delivered' = <<>>
    /\ UNCHANGED <<iterVars, ctorVars, inputEvents, semVars, rendVars>>

\* the GLFW callbacks that Window::installGlfwCallbacks installs on a window
CallbackKinds ==
    {"focus", "cursorEnter", "cursorPos", "mouseButton", "scroll", "key", "char"}

\* UpdateKeyModifiers: one key event for each of Ctrl, Shift, Alt and Super
UpdateKeyModifiers == <<"Key", "Key", "Key", "Key">>

\* The events one callback adds to the IO of its window's context.
\* cursorDisabled: the window's cursor mode is GLFW_CURSOR_DISABLED.
\* flag: for cursorEnter, the cursor entered or leaves the window that held it;
\* for mouseButton, the button is one of ImGui's; for key, the action is a
\* press or a release.
CallbackEvents(kind, cursorDisabled, flag) ==
    CASE kind = "focus" -> <<"Focus">>
      [] kind = "cursorEnter" ->
            IF cursorDisabled THEN <<>>
            ELSE IF flag THEN <<"MousePos">> ELSE <<>>
      [] kind = "cursorPos" -> IF cursorDisabled THEN <<>> ELSE <<"MousePos">>
      [] kind = "mouseButton" ->
            UpdateKeyModifiers \o (IF flag THEN <<"MouseButton">> ELSE <<>>)
      [] kind = "scroll" -> <<"MouseWheel">>
      [] kind = "key" -> IF flag THEN UpdateKeyModifiers \o <<"Key">> ELSE <<>>
      [] kind = "char" -> <<"InputCharacter">>

\* the number of events queued in all contexts
RECURSIVE QueuedEvents(_)
QueuedEvents(ws) ==
    IF ws = {} THEN 0
    ELSE LET w == CHOOSE x \in ws : TRUE
         IN  Len(inputEvents[w]) + QueuedEvents(ws \ {w})

\* a callback that adds its events through the current ImGui context
inputCallbackToCurrent ==
    /\ pc = "poll"
    /\ QueuedEvents(WinIds) < MaxEvents
    /\ currentContext # NullContext
    /\ \E w \in Range(appWindows), kind \in CallbackKinds,
          cursorDisabled \in BOOLEAN, flag \in BOOLEAN :
          /\ inputEvents' = [inputEvents EXCEPT ![currentContext] =
                                @ \o CallbackEvents(kind, cursorDisabled, flag)]
          /\ delivered' = <<w, kind, cursorDisabled, flag>>
    /\ UNCHANGED <<appVars, winVars, gpuVars, tickVars, actVars, iterVars, ctorVars,
                   semVars, rendVars>>

\* One GLFW input callback, called from glfwPollEvents for a window of the
\* registry: it finds the Window through the GLFW user pointer and adds its
\* events to getImGuiContext()->IO, the IO of that window's context (a context
\* is named by the id of its window).
inputCallback ==
    /\ pc = "poll"
    /\ QueuedEvents(WinIds) < MaxEvents
    /\ \E w \in Range(appWindows), kind \in CallbackKinds,
          cursorDisabled \in BOOLEAN, flag \in BOOLEAN :
          /\ inputEvents' = [inputEvents EXCEPT ![w] =
                                @ \o CallbackEvents(kind, cursorDisabled, flag)]
          /\ delivered' = <<w, kind, cursorDisabled, flag>>
    /\ UNCHANGED <<appVars, winVars, gpuVars, tickVars, actVars, iterVars, ctorVars,
                   semVars, rendVars>>

\* the cull without its i == 0 test: the primary window is erased like any other
RECURSIVE CullLoopNoMainCheck(_, _, _, _)
CullLoopNoMainCheck(windows, i, shouldClose, erased) ==
    IF i > Len(windows)
    THEN [windows |-> windows, stopped |-> FALSE, erased |-> erased]
    ELSE IF windows[i] \in shouldClose
         THEN CullLoopNoMainCheck(RemoveAt(windows, i), i + 1, shouldClose,
                                  Append(erased, windows[i]))
         ELSE CullLoopNoMainCheck(windows, i + 1, shouldClose, erased)

\* the cull without the break after stop(): it goes on to erase the other
\* close-requested windows
RECURSIVE CullLoopStopNoBreak(_, _, _, _)
CullLoopStopNoBreak(windows, i, shouldClose, erased) ==
    IF i > Len(windows)
    THEN [windows |-> windows, stopped |-> FALSE, erased |-> erased]
    ELSE IF windows[i] \in shouldClose
         THEN IF i = 1
              THEN [CullLoopStopNoBreak(windows, i + 1, shouldClose, erased)
                        EXCEPT !.stopped = TRUE]
              ELSE CullLoopStopNoBreak(RemoveAt(windows, i), i + 1, shouldClose,
                                       Append(erased, windows[i]))
         ELSE CullLoopStopNoBreak(windows, i + 1, shouldClose, erased)

\* the cull with stop() and break for whichever window closes
RECURSIVE CullLoopStopAny(_, _, _, _)
CullLoopStopAny(windows, i, shouldClose, erased) ==
    IF i > Len(windows)
    THEN [windows |-> windows, stopped |-> FALSE, erased |-> erased]
    ELSE IF windows[i] \in shouldClose
         THEN [windows |-> windows, stopped |-> TRUE, erased |-> erased]
         ELSE CullLoopStopAny(windows, i + 1, shouldClose, erased)

\* the loop of cullClosedWindowsExitOnMainDeath from index i (1-based):
\* [windows: the registry it leaves, stopped: stop() was called, erased: in order]
RECURSIVE CullLoop(_, _, _, _)
CullLoop(windows, i, shouldClose, erased) ==
    IF i > Len(windows)
    THEN [windows |-> windows, stopped |-> FALSE, erased |-> erased]
    ELSE IF windows[i] \in shouldClose
         THEN IF i = 1
              THEN [windows |-> windows, stopped |-> TRUE, erased |-> erased]
              ELSE CullLoop(RemoveAt(windows, i), i + 1, shouldClose,
                            Append(erased, windows[i]))
         ELSE CullLoop(windows, i + 1, shouldClose, erased)

\* Application::cullClosedWindowsExitOnMainDeath; an erased window's last
\* reference goes with the registry entry, so Window::~Window runs in the erase.
\* run() then starts its range-for: begin() and end() of the registry it left.
cullClosedWindowsExitOnMainDeath ==
    /\ pc = "cull"
    /\ LET shouldClose == {w \in Range(appWindows) : glfwShouldClose[w]}
           r == CullLoop(appWindows, 1, shouldClose, <<>>)
           gone == Range(r.erased)
       IN  /\ appWindows' = r.windows
           /\ running' = IF r.stopped THEN FALSE ELSE running
           /\ wstate' = [w \in WinIds |-> IF w \in gone THEN "destroyed" ELSE wstate[w]]
           /\ imguiContext' = [w \in WinIds |-> imguiContext[w] /\ w \notin gone]
           /\ resourceFreeQueue' =
                  [w \in WinIds |-> IF w \in gone THEN <<>> ELSE resourceFreeQueue[w]]
           /\ fence' = IF gone # {} THEN DeviceIdle(fence) ELSE fence
           /\ busy' = IF gone # {} THEN NothingBusy ELSE busy
           /\ currentContext' = DtorContexts(r.erased, currentContext)
           /\ beforeCull' = appWindows
           /\ closeAtCull' = shouldClose
           /\ itEnd' = Len(r.windows)
           /\ dtorCalls' = IF gone # {} THEN WindowDtor(renderer) ELSE dtorCalls
           /\ inputEvents' = [w \in WinIds |-> IF w \in gone THEN <<>> ELSE inputEvents[w]]
    /\ it' = 1
    /\ itValid' = TRUE
    /\ pc' = "iter"
    /\ UNCHANGED <<renderer, backupContext, glfwShouldClose, swapchainNeedRebuild,
                   ImageCount, SemaphoreIndex, FrameIndex, log, rendered,
                   staleReported, indexAtAcquire, executed, waited, actSlot, nextAction,
                   capacity, setupCalls, gpuResources, semVars, rendVars, delivered>>

\* the range-for stopping one window short
iterateSkipLast ==
    /\ pc = "iter"
    /\ pc' = IF it < itEnd THEN "render" ELSE "loop"
    /\ UNCHANGED <<running, renderer, appWindows, it, backupContext, currentContext,
                   winVars, gpuVars, tickVars, actVars, iterVars, ctorVars, inputVars, semVars, rendVars>>

\* the range-for of Application::run: compare the iterator with the cached end,
\* then dereference it for window->render(), or leave the loop.  Once
\* an emplace_back has reallocated the registry the iterator points into the
\* freed buffer: the dereference crashes, or still reads the element that was there.
iterate ==
    /\ pc = "iter"
    /\ IF it <= itEnd
       THEN \E outcome \in (IF itValid THEN {"render"} ELSE {"render", "crashed"}) :
                pc' = outcome
       ELSE pc' = "loop"
    /\ UNCHANGED <<running, renderer, appWindows, it, backupContext, currentContext,
                   winVars, gpuVars, tickVars, actVars, iterVars, ctorVars, inputVars, semVars, rendVars>>

\* the loop test of a run() that never reads the running flag
loopTestIgnoresFlag ==
    /\ pc = "loop"
    /\ pc' = "poll"
    /\ UNCHANGED <<running, renderer, appWindows, it, backupContext, currentContext,
                   winVars, gpuVars, tickVars, actVars>>
    /\ UNCHANGED <<iterVars, ctorVars, inputVars, semVars, rendVars>>

\* while (running) at the end of a tick
loopTest ==
    /\ pc = "loop"
    /\ pc' = IF running THEN "poll" ELSE "returned"
    /\ UNCHANGED <<running, renderer, appWindows, it, backupContext, currentContext,
                   winVars, gpuVars, tickVars, actVars>>
    /\ UNCHANGED <<iterVars, ctorVars, inputVars, semVars, rendVars>>

\* ~Application calling renderer->shutdown() where the source has renderer.reset():
\* a call through the null pointer when init() created no renderer
ApplicationDtorShutsDown ==
    /\ pc = "returned"
    /\ running' = FALSE
    /\ renderer' = FALSE
    /\ fence' = IF renderer THEN DeviceIdle(fence) ELSE fence
    /\ busy' = IF renderer THEN NothingBusy ELSE busy
    /\ pc' = IF renderer THEN "clear" ELSE "crashed"
    /\ UNCHANGED <<appWindows, it, backupContext, currentContext, winVars, tickVars,
                   actVars>>
    /\ UNCHANGED <<iterVars, ctorVars, inputVars, semVars, rendVars>>

\* Application::~Application after run() returned, first half: stop(), then
\* renderer.reset().  The Application holds the only lasting reference, so the
\* Renderer is destroyed here (Renderer::shutdown waits for the device and
\* destroys it) while the registry still holds every window.
ApplicationDtor ==
    /\ pc = "returned"
    /\ running' = FALSE
    /\ renderer' = FALSE
    /\ fence' = IF renderer THEN DeviceIdle(fence) ELSE fence
    /\ busy' = IF renderer THEN NothingBusy ELSE busy
    /\ pc' = "clear"
    /\ UNCHANGED <<appWindows, it, backupContext, currentContext, winVars, tickVars,
                   actVars>>
    /\ UNCHANGED <<iterVars, ctorVars, inputVars, semVars, rendVars>>

\* Application::~Application, second half: appWindows.clear() runs ~Window on each
\* window in registry order.  Each ~Window with a live context calls
\* getRenderer()->getDevice() on the renderer that was just reset: a null
\* dereference, which crashes or reads a stale handle and goes on.
appWindowsClear ==
    /\ pc = "clear"
    /\ \E outcome \in (IF appWindows = <<>> THEN {"exited"} ELSE {"crashed", "exited"}) :
         /\ pc' = outcome
         /\ IF outcome = "exited"
            THEN /\ appWindows' = <<>>
                 /\ wstate' = [w \in WinIds |->
                        IF w \in Range(appWindows) THEN "destroyed" ELSE wstate[w]]
                 /\ imguiContext' = [w \in WinIds |->
                        imguiContext[w] /\ w \notin Range(appWindows)]
                 /\ resourceFreeQueue' = [w \in WinIds |->
                        IF w \in Range(appWindows) THEN <<>> ELSE resourceFreeQueue[w]]
                 /\ currentContext' = DtorContexts(appWindows, currentContext)
                 /\ dtorCalls' = IF appWindows # <<>> THEN WindowDtor(renderer)
                                 ELSE dtorCalls
                 /\ inputEvents' = [w \in WinIds |->
                        IF w \in Range(appWindows) THEN <<>> ELSE inputEvents[w]]
            ELSE UNCHANGED <<appWindows, wstate, imguiContext, resourceFreeQueue,
                             currentContext, dtorCalls, inputEvents>>
    /\ UNCHANGED <<running, renderer, it, backupContext, glfwShouldClose,
                   swapchainNeedRebuild, ImageCount, SemaphoreIndex, FrameIndex,
                   gpuVars, tickVars, actVars>>
    /\ UNCHANGED <<iterVars, setupCalls, gpuResources, semVars, rendVars, delivered>>

----------------------------------------------------------------------------
(* Window::render and the frame protocol, on the window Cur *)

FrameVarsUnchanged ==
    UNCHANGED <<running, renderer, appWindows, it, backupContext, currentContext,
                wstate, glfwShouldClose, ImageCount, imguiContext>>

\* render() starting the frame without ImGui::SetCurrentContext(imguiContext)
renderBeginNoSwitch ==
    /\ pc = "render"
    /\ backupContext' = currentContext
    /\ currentContext' = currentContext
    /\ log' = <<>>
    /\ rendered' = Append(rendered, Cur)
    /\ staleReported' = [staleReported EXCEPT ![Cur] = FALSE]
    /\ pc' = "hooks"
    /\ UNCHANGED <<running, renderer, appWindows, it, winVars, gpuVars,
                   beforeCull, closeAtCull, indexAtAcquire, actVars>>
    /\ \E taken \in (IF inputEvents[Cur] = <<>> THEN {0}
                     ELSE 1..Len(inputEvents[Cur])) :
         inputEvents' = [inputEvents EXCEPT ![Cur] =
                            SubSeq(inputEvents[Cur], taken + 1, Len(inputEvents[Cur]))]
    /\ UNCHANGED <<iterVars, ctorVars, delivered, semVars, rendVars>>

\* Window::render, entry: swap ImGui contexts and start the ImGui frame;
\* ImGui::NewFrame takes events off the front of the context's input queue, at
\* least the first one
renderBegin ==
    /\ pc = "render"
    /\ backupContext' = currentContext
    /\ currentContext' = Cur
    /\ log' = <<>>
    /\ rendered' = Append(rendered, Cur)
    /\ staleReported' = [staleReported EXCEPT ![Cur] = FALSE]
    /\ pc' = "hooks"
    /\ UNCHANGED <<running, renderer, appWindows, it, winVars, gpuVars,
                   beforeCull, closeAtCull, indexAtAcquire, actVars>>
    /\ \E taken \in (IF inputEvents[Cur] = <<>> THEN {0}
                     ELSE 1..Len(inputEvents[Cur])) :
         inputEvents' = [inputEvents EXCEPT ![Cur] =
                            SubSeq(inputEvents[Cur], taken + 1, Len(inputEvents[Cur]))]
    /\ UNCHANGED <<iterVars, ctorVars, delivered, semVars, rendVars>>

\* application logic in onUpdate/onRender: push a cleanup action on a slot of
\* this window's resourceFreeQueue
enqueue ==
    /\ pc = "hooks"
    /\ nextAction <= MaxActions
    /\ \E s \in 1..Len(resourceFreeQueue[Cur]) :
         /\ resourceFreeQueue' = [resourceFreeQueue EXCEPT
                ![Cur][s] = Append(resourceFreeQueue[Cur][s], nextAction)]
         /\ actSlot' = [actSlot EXCEPT ![nextAction] = <<Cur, s - 1>>]
    /\ nextAction' = nextAction + 1
    /\ UNCHANGED <<appVars, wstate, glfwShouldClose, swapchainNeedRebuild, ImageCount,
                   SemaphoreIndex, FrameIndex, imguiContext, gpuVars, tickVars,
                   executed, waited>>
    /\ UNCHANGED <<iterVars, ctorVars, inputVars, semVars, rendVars>>

\* render() asking for a rebuild whenever the display size is degenerate
renderDrawMarksDegenerate(shows) ==
    /\ pc = "hooks"
    /\ \E windowShouldRender \in shows :
         IF windowShouldRender
         THEN /\ pc' = "acquire"
              /\ log' = log
              /\ UNCHANGED swapchainNeedRebuild
         ELSE /\ pc' = "restore"
              /\ log' = Append(log, <<"sleep", VK_SUCCESS>>)
              /\ swapchainNeedRebuild' = [swapchainNeedRebuild EXCEPT ![Cur] = TRUE]
    /\ UNCHANGED <<running, renderer, appWindows, it, backupContext, currentContext,
                   wstate, glfwShouldClose, ImageCount, SemaphoreIndex, FrameIndex,
                   resourceFreeQueue, imguiContext, gpuVars, rendered, beforeCull,
                   closeAtCull, staleReported, indexAtAcquire, actVars>>
    /\ UNCHANGED <<iterVars, ctorVars, inputVars, semVars, rendVars>>

\* render() presenting on a degenerate display size instead of sleeping
renderDrawPresentsDegenerate(shows) ==
    /\ pc = "hooks"
    /\ \E windowShouldRender \in shows :
         IF windowShouldRender
         THEN /\ pc' = "acquire"
              /\ log' = log
         ELSE /\ pc' = "restore"
              /\ log' = Append(log, <<"present", VK_SUCCESS>>)
    /\ UNCHANGED <<running, renderer, appWindows, it, backupContext, currentContext,
                   winVars, gpuVars, rendered, beforeCull, closeAtCull, staleReported,
                   indexAtAcquire, actVars>>
    /\ UNCHANGED <<iterVars, ctorVars, inputVars, semVars, rendVars>>

\* onUpdate(); onRender(); ImGui::Render(); then windowShouldRender decides between
\* renderAndPresent and the 5 ms sleep.  shows: whether the draw data's display
\* size can be non-degenerate / degenerate.
renderDraw(shows) ==
    /\ pc = "hooks"
    /\ \E windowShouldRender \in shows :
         IF windowShouldRender
         THEN /\ pc' = "acquire"
              /\ log' = log
         ELSE /\ pc' = "restore"
              /\ log' = Append(log, <<"sleep", VK_SUCCESS>>)
    /\ UNCHANGED <<running, renderer, appWindows, it, backupContext, currentContext,
                   winVars, gpuVars, rendered, beforeCull, closeAtCull, staleReported,
                   indexAtAcquire, actVars>>
    /\ UNCHANGED <<iterVars, ctorVars, inputVars, semVars, rendVars>>

\* frameRender keeping one rebuild flag for all windows: a stale acquire marks
\* every window
frameAcquireSharedFlag(errs, images) ==
    /\ pc = "acquire"
    /\ \E err \in errs, image \in images[Cur] :
         /\ log' = Append(log, <<"acquire", err>>)
         /\ indexAtAcquire' = <<FrameIndex[Cur], SemaphoreIndex[Cur]>>
         /\ imageAcquired' = IF err >= 0
                             THEN [imageAcquired EXCEPT
                                       ![Cur][SemaphoreIndex[Cur] + 1] = TRUE]
                             ELSE imageAcquired
         /\ FrameIndex' = IF err >= 0 THEN [FrameIndex EXCEPT ![Cur] = image]
                          ELSE FrameIndex
         /\ IF IsStale(err)
            THEN /\ swapchainNeedRebuild' = [w \in WinIds |-> TRUE]
                 /\ staleReported' = [staleReported EXCEPT ![Cur] = TRUE]
                 /\ pc' = "present"
            ELSE /\ pc' = IF CheckVkResult(err) = "abort" THEN "aborted" ELSE "wait"
                 /\ UNCHANGED <<swapchainNeedRebuild, staleReported>>
    /\ FrameVarsUnchanged
    /\ UNCHANGED <<SemaphoreIndex, resourceFreeQueue, gpuVars, rendered, beforeCull,
                   closeAtCull, actVars>>
    /\ UNCHANGED <<iterVars, ctorVars, inputVars, renderComplete, rendVars>>

\* frameRender without the staleness test: every result goes to CheckVkResult
frameAcquireNoStaleTest(errs, images) ==
    /\ pc = "acquire"
    /\ \E err \in errs, image \in images[Cur] :
         /\ log' = Append(log, <<"acquire", err>>)
         /\ indexAtAcquire' = <<FrameIndex[Cur], SemaphoreIndex[Cur]>>
         /\ imageAcquired' = IF err >= 0
                             THEN [imageAcquired EXCEPT
                                       ![Cur][SemaphoreIndex[Cur] + 1] = TRUE]
                             ELSE imageAcquired
         /\ FrameIndex' = IF err >= 0 THEN [FrameIndex EXCEPT ![Cur] = image]
                          ELSE FrameIndex
         /\ staleReported' = [staleReported EXCEPT ![Cur] = IsStale(err)]
         /\ pc' = IF CheckVkResult(err) = "abort" THEN "aborted" ELSE "wait"
    /\ FrameVarsUnchanged
    /\ UNCHANGED <<swapchainNeedRebuild, SemaphoreIndex, resourceFreeQueue, gpuVars,
                   rendered, beforeCull, closeAtCull, actVars>>
    /\ UNCHANGED <<iterVars, ctorVars, inputVars, renderComplete, rendVars>>

\* frameRender: vkAcquireNextImageKHR and the staleness test.  A non-negative
\* result (VK_SUBOPTIMAL_KHR included) comes with an image: the driver writes
\* its index through &imguiWindow->FrameIndex.
frameAcquire(errs, images) ==
    /\ pc = "acquire"
    /\ \E err \in errs, image \in images[Cur] :
         /\ log' = Append(log, <<"acquire", err>>)
         /\ indexAtAcquire' = <<FrameIndex[Cur], SemaphoreIndex[Cur]>>
         /\ imageAcquired' = IF err >= 0
                             THEN [imageAcquired EXCEPT
                                       ![Cur][SemaphoreIndex[Cur] + 1] = TRUE]
                             ELSE imageAcquired
         /\ FrameIndex' = IF err >= 0 THEN [FrameIndex EXCEPT ![Cur] = image]
                          ELSE FrameIndex
         /\ IF IsStale(err)
            THEN /\ swapchainNeedRebuild' = [swapchainNeedRebuild EXCEPT ![Cur] = TRUE]
                 /\ staleReported' = [staleReported EXCEPT ![Cur] = TRUE]
                 /\ pc' = "present"
            ELSE /\ pc' = IF CheckVkResult(err) = "abort" THEN "aborted" ELSE "wait"
                 /\ UNCHANGED <<swapchainNeedRebuild, staleReported>>
    /\ FrameVarsUnchanged
    /\ UNCHANGED <<SemaphoreIndex, resourceFreeQueue, gpuVars, rendered, beforeCull,
                   closeAtCull, actVars>>
    /\ UNCHANGED <<iterVars, ctorVars, inputVars, renderComplete, rendVars>>

\* the fence wait on the fence of the slot after the acquired one
frameWaitFenceOtherSlot ==
    /\ pc = "wait"
    /\ \E err \in CallResults :
         /\ err = VK_SUCCESS =>
                fence[Cur][((FrameIndex[Cur] + 1) % ImageCount[Cur]) + 1] = "signaled"
         /\ log' = Append(log, <<"wait", err>>)
         /\ waited' = IF err = VK_SUCCESS
                      THEN waited \cup {a \in QueuedIn(Cur) :
                                            actSlot[a] = <<Cur, FrameIndex[Cur]>>}
                      ELSE waited
         /\ pc' = IF CheckVkResult(err) = "abort" THEN "aborted" ELSE "resetFence"
    /\ FrameVarsUnchanged
    /\ UNCHANGED <<swapchainNeedRebuild, SemaphoreIndex, FrameIndex, resourceFreeQueue,
                   gpuVars, rendered, beforeCull, closeAtCull, staleReported,
                   indexAtAcquire, executed, actSlot, nextAction>>
    /\ UNCHANGED <<iterVars, ctorVars, inputVars, semVars, rendVars>>

\* the fence wait with no timeout to speak of: it returns whether or not the
\* fence is signaled, and frameRender goes on
frameWaitFenceNoBlock ==
    /\ pc = "wait"
    /\ \E err \in CallResults :
         /\ log' = Append(log, <<"wait", err>>)
         /\ waited' = IF err = VK_SUCCESS
                      THEN waited \cup {a \in QueuedIn(Cur) :
                                            actSlot[a] = <<Cur, FrameIndex[Cur]>>}
                      ELSE waited
         /\ pc' = IF CheckVkResult(err) = "abort" THEN "aborted" ELSE "resetFence"
    /\ FrameVarsUnchanged
    /\ UNCHANGED <<swapchainNeedRebuild, SemaphoreIndex, FrameIndex, resourceFreeQueue,
                   gpuVars, rendered, beforeCull, closeAtCull, staleReported,
                   indexAtAcquire, executed, actSlot, nextAction>>
    /\ UNCHANGED <<iterVars, ctorVars, inputVars, semVars, rendVars>>

\* frameRender: vkWaitForFences(fd->Fence, UINT64_MAX) returns VK_SUCCESS once the
\* fence of slot FrameIndex is signaled, or fails
frameWaitFence ==
    /\ pc = "wait"
    /\ \E err \in CallResults :
         /\ err = VK_SUCCESS => fence[Cur][FrameIndex[Cur] + 1] = "signaled"
         /\ log' = Append(log, <<"wait", err>>)
         /\ waited' = IF err = VK_SUCCESS
                      THEN waited \cup {a \in QueuedIn(Cur) :
                                            actSlot[a] = <<Cur, FrameIndex[Cur]>>}
                      ELSE waited
         /\ pc' = IF CheckVkResult(err) = "abort" THEN "aborted" ELSE "resetFence"
    /\ FrameVarsUnchanged
    /\ UNCHANGED <<swapchainNeedRebuild, SemaphoreIndex, FrameIndex, resourceFreeQueue,
                   gpuVars, rendered, beforeCull, closeAtCull, staleReported,
                   indexAtAcquire, executed, actSlot, nextAction>>
    /\ UNCHANGED <<iterVars, ctorVars, inputVars, semVars, rendVars>>

\* frameRender: vkResetFences
frameResetFence ==
    /\ pc = "resetFence"
    /\ \E err \in CallResults :
         /\ log' = Append(log, <<"resetFence", err>>)
         /\ fence' = IF err = VK_SUCCESS
                     THEN [fence EXCEPT ![Cur][FrameIndex[Cur] + 1] = "unsignaled"]
                     ELSE fence
         /\ UNCHANGED busy
         /\ pc' = IF CheckVkResult(err) = "abort" THEN "aborted" ELSE "reclaim"
    /\ FrameVarsUnchanged
    /\ UNCHANGED <<swapchainNeedRebuild, SemaphoreIndex, FrameIndex, resourceFreeQueue,
                   rendered, beforeCull, closeAtCull, staleReported, indexAtAcquire,
                   actVars>>
    /\ UNCHANGED <<iterVars, ctorVars, inputVars, semVars, rendVars>>

\* the reclaim without resourceFreeQueue[FrameIndex].clear()
frameReclaimNoClear ==
    /\ pc = "reclaim"
    /\ FrameIndex[Cur] + 1 <= Len(resourceFreeQueue[Cur])
    /\ executed' = executed \o resourceFreeQueue[Cur][FrameIndex[Cur] + 1]
    /\ log' = Append(log, <<"reclaim", VK_SUCCESS>>)
    /\ pc' = "resetPool"
    /\ FrameVarsUnchanged
    /\ UNCHANGED <<swapchainNeedRebuild, SemaphoreIndex, FrameIndex, resourceFreeQueue,
                   gpuVars, rendered, beforeCull, closeAtCull, staleReported,
                   indexAtAcquire, waited, actSlot, nextAction>>
    /\ UNCHANGED <<iterVars, ctorVars, inputVars, semVars, rendVars>>

\* frameRender: run and clear resourceFreeQueue[FrameIndex].  The vector has
\* minImageCount slots; an index past its end reads foreign memory, which either
\* crashes or finds nothing to run.
frameReclaim ==
    /\ pc = "reclaim"
    /\ IF FrameIndex[Cur] + 1 <= Len(resourceFreeQueue[Cur])
       THEN /\ executed' = executed \o resourceFreeQueue[Cur][FrameIndex[Cur] + 1]
            /\ resourceFreeQueue' =
                   [resourceFreeQueue EXCEPT ![Cur][FrameIndex[Cur] + 1] = <<>>]
            /\ log' = Append(log, <<"reclaim", VK_SUCCESS>>)
            /\ pc' = "resetPool"
       ELSE /\ \E outcome \in {"crashed", "resetPool"} : pc' = outcome
            /\ log' = Append(log, <<"reclaim", VK_SUCCESS>>)
            /\ UNCHANGED <<executed, resourceFreeQueue>>
    /\ FrameVarsUnchanged
    /\ UNCHANGED <<swapchainNeedRebuild, SemaphoreIndex, FrameIndex, gpuVars, rendered,
                   beforeCull, closeAtCull, staleReported, indexAtAcquire, waited,
                   actSlot, nextAction>>
    /\ UNCHANGED <<iterVars, ctorVars, inputVars, semVars, rendVars>>

\* a frameRender call whose result is not handed to CheckVkResult
frameCallUnchecked(at, op, next) ==
    /\ pc = at
    /\ \E err \in CallResults :
         /\ log' = Append(log, <<op, err>>)
         /\ pc' = next
    /\ FrameVarsUnchanged
    /\ UNCHANGED <<swapchainNeedRebuild, SemaphoreIndex, FrameIndex, resourceFreeQueue,
                   gpuVars, rendered, beforeCull, closeAtCull, staleReported,
                   indexAtAcquire, actVars>>
    /\ UNCHANGED <<iterVars, ctorVars, inputVars, semVars, rendVars>>

\* a frameRender call that changes no state but may abort: op names it in the log
frameCall(at, op, next) ==
    /\ pc = at
    /\ \E err \in CallResults :
         /\ log' = Append(log, <<op, err>>)
         /\ pc' = IF CheckVkResult(err) = "abort" THEN "aborted" ELSE next
    /\ FrameVarsUnchanged
    /\ UNCHANGED <<swapchainNeedRebuild, SemaphoreIndex, FrameIndex, resourceFreeQueue,
                   gpuVars, rendered, beforeCull, closeAtCull, staleReported,
                   indexAtAcquire, actVars>>
    /\ UNCHANGED <<iterVars, ctorVars, inputVars, semVars, rendVars>>

\* frameRender giving the frame up after the pool reset
frameResetPoolGivesUp == frameCall("resetPool", "resetPool", "present")

\* frameRender: vkResetCommandPool
frameResetPool == frameCall("resetPool", "resetPool", "record")

\* frameRender going from the recorded command buffer straight to the present
frameRecordThenPresent == frameCall("record", "record", "present")

\* frameRender: vkBeginCommandBuffer .. vkEndCommandBuffer
frameRecord == frameCall("record", "record", "submit")

\* frameRender: vkQueueSubmit(.., fd->Fence): the batch signals the slot's fence
\* when the GPU completes it
frameSubmit ==
    /\ pc = "submit"
    /\ \E err \in CallResults :
         /\ log' = Append(log, <<"submit", err>>)
         /\ fence' = IF err = VK_SUCCESS
                     THEN [fence EXCEPT ![Cur][FrameIndex[Cur] + 1] = "pending"]
                     ELSE fence
         /\ busy' = IF err = VK_SUCCESS
                    THEN [busy EXCEPT ![Cur][FrameIndex[Cur] + 1] = TRUE]
                    ELSE busy
         /\ imageAcquired' = IF err = VK_SUCCESS
                             THEN [imageAcquired EXCEPT
                                       ![Cur][SemaphoreIndex[Cur] + 1] = FALSE]
                             ELSE imageAcquired
         /\ renderComplete' = IF err = VK_SUCCESS
                              THEN [renderComplete EXCEPT
                                        ![Cur][SemaphoreIndex[Cur] + 1] = TRUE]
                              ELSE renderComplete
         /\ pc' = IF CheckVkResult(err) = "abort" THEN "aborted" ELSE "present"
    /\ FrameVarsUnchanged
    /\ UNCHANGED <<swapchainNeedRebuild, SemaphoreIndex, FrameIndex, resourceFreeQueue,
                   rendered, beforeCull, closeAtCull, staleReported, indexAtAcquire,
                   actVars>>
    /\ UNCHANGED <<iterVars, ctorVars, inputVars, rendVars>>

\* framePresent advancing the semaphore index without the modulo
framePresentNoWrap(errs) ==
    /\ pc = "present"
    /\ IF swapchainNeedRebuild[Cur]
       THEN /\ pc' = "restore"
            /\ UNCHANGED <<log, swapchainNeedRebuild, staleReported, SemaphoreIndex,
                           renderComplete>>
       ELSE \E err \in errs :
            /\ log' = Append(log, <<"present", err>>)
            /\ renderComplete' = IF IsStale(err) \/ CheckVkResult(err) # "abort"
                                 THEN [renderComplete EXCEPT
                                           ![Cur][SemaphoreIndex[Cur] + 1] = FALSE]
                                 ELSE renderComplete
            /\ IF IsStale(err)
               THEN /\ swapchainNeedRebuild' = [swapchainNeedRebuild EXCEPT ![Cur] = TRUE]
                    /\ staleReported' = [staleReported EXCEPT ![Cur] = TRUE]
                    /\ pc' = "restore"
                    /\ UNCHANGED SemaphoreIndex
               ELSE /\ IF CheckVkResult(err) = "abort"
                       THEN /\ pc' = "aborted"
                            /\ UNCHANGED SemaphoreIndex
                       ELSE /\ pc' = "restore"
                            /\ SemaphoreIndex' = [SemaphoreIndex EXCEPT ![Cur] =
                                   SemaphoreIndex[Cur] + 1]
                    /\ UNCHANGED <<swapchainNeedRebuild, staleReported>>
    /\ FrameVarsUnchanged
    /\ UNCHANGED <<FrameIndex, resourceFreeQueue, gpuVars, rendered, beforeCull,
                   closeAtCull, indexAtAcquire, actVars>>
    /\ UNCHANGED <<iterVars, ctorVars, inputVars, imageAcquired, rendVars>>

\* Window::framePresent, called by renderAndPresent whenever frameRender returned
framePresent(errs) ==
    /\ pc = "present"
    /\ IF swapchainNeedRebuild[Cur]
       THEN /\ pc' = "restore"
            /\ UNCHANGED <<log, swapchainNeedRebuild, staleReported, SemaphoreIndex,
                           renderComplete>>
       ELSE \E err \in errs :
            /\ log' = Append(log, <<"present", err>>)
            /\ renderComplete' = IF IsStale(err) \/ CheckVkResult(err) # "abort"
                                 THEN [renderComplete EXCEPT
                                           ![Cur][SemaphoreIndex[Cur] + 1] = FALSE]
                                 ELSE renderComplete
            /\ IF IsStale(err)
               THEN /\ swapchainNeedRebuild' = [swapchainNeedRebuild EXCEPT ![Cur] = TRUE]
                    /\ staleReported' = [staleReported EXCEPT ![Cur] = TRUE]
                    /\ pc' = "restore"
                    /\ UNCHANGED SemaphoreIndex
               ELSE /\ IF CheckVkResult(err) = "abort"
                       THEN /\ pc' = "aborted"
                            /\ UNCHANGED SemaphoreIndex
                       ELSE /\ pc' = "restore"
                            /\ SemaphoreIndex' = [SemaphoreIndex EXCEPT ![Cur] =
                                   (SemaphoreIndex[Cur] + 1) % SemaphoreCount(Cur)]
                    /\ UNCHANGED <<swapchainNeedRebuild, staleReported>>
    /\ FrameVarsUnchanged
    /\ UNCHANGED <<FrameIndex, resourceFreeQueue, gpuVars, rendered, beforeCull,
                   closeAtCull, indexAtAcquire, actVars>>
    /\ UNCHANGED <<iterVars, ctorVars, inputVars, imageAcquired, rendVars>>

\* Window::render, exit: restore the previous context; the range-for moves on
renderEnd ==
    /\ pc = "restore"
    /\ currentContext' = IF backupContext # NullContext THEN backupContext
                         ELSE currentContext
    /\ log' = <<>>
    /\ indexAtAcquire' = <<0, 0>>
    /\ it' = it + 1
    /\ pc' = "iter"
    /\ UNCHANGED <<running, renderer, appWindows, backupContext, winVars, gpuVars,
                   rendered, beforeCull, closeAtCull, staleReported, actVars>>
    /\ UNCHANGED <<iterVars, ctorVars, inputVars, semVars, rendVars>>

----------------------------------------------------------------------------
(* The GPU *)

\* the GPU completes the batch submitted with the fence of slot s of window w
GpuComplete(w, s) ==
    /\ pc \notin {"aborted", "crashed", "exited"}
    /\ s \in DOMAIN busy[w]
    /\ busy[w][s]
    /\ busy' = [busy EXCEPT ![w][s] = FALSE]
    /\ fence' = [fence EXCEPT ![w][s] = "signaled"]
    /\ UNCHANGED <<appVars, winVars, tickVars, actVars>>
    /\ UNCHANGED <<iterVars, ctorVars, inputVars, semVars, rendVars>>

----------------------------------------------------------------------------
(* Renderer::CheckVkResult on its own *)

\* a Vulkan call outside the frame protocol (renderer set-up, or the ImGui
\* backend, which is given CheckVkResult as its callback) returns a status code
driverResult(codes) ==
    /\ pc = "idle"
    /\ log = <<>>
    /\ \E result \in codes : log' = <<<<"call", result>>>>
    /\ pc' = "check"
    /\ UNCHANGED <<running, renderer, appWindows, it, backupContext, currentContext,
                   winVars, gpuVars, rendered, beforeCull, closeAtCull, staleReported,
                   indexAtAcquire, actVars, iterVars, ctorVars, inputVars, semVars, rendVars>>

\* Renderer::CheckVkResult(result) on that code: return, print and return, or
\* print and abort
callCheckVkResult ==
    /\ pc = "check"
    /\ LET result == log[Len(log)][2]
           does == CheckVkResult(result)
       IN  /\ log' = IF does = "ok" THEN log ELSE Append(log, <<"print", result>>)
           /\ pc' = IF does = "abort" THEN "aborted" ELSE "checked"
    /\ UNCHANGED <<running, renderer, appWindows, it, backupContext, currentContext,
                   winVars, gpuVars, rendered, beforeCull, closeAtCull, staleReported,
                   indexAtAcquire, actVars, iterVars, ctorVars, inputVars, semVars, rendVars>>

----------------------------------------------------------------------------
(* Renderer::selectPhysicalDevice on its own *)

\* every non-empty list of device types of up to MaxDevices devices
DeviceLists == UNION {[1..n -> DeviceTypes] : n \in 1..MaxDevices}

\* the selection loop without its break: the last discrete GPU wins
RECURSIVE useGpuNoBreak(_, _)
useGpuNoBreak(gpus, i) ==
    IF i >= Len(gpus) THEN 0
    ELSE LET later == useGpuNoBreak(gpus, i + 1)
         IN  IF later > i THEN later
             ELSE IF gpus[i + 1] = VK_PHYSICAL_DEVICE_TYPE_DISCRETE_GPU THEN i
             ELSE 0

\* the selection loop from index i (0-based): useGpu starts at 0 and becomes the
\* index of the first discrete GPU found, where the loop breaks
RECURSIVE useGpu(_, _)
useGpu(gpus, i) ==
    IF i >= Len(gpus) THEN 0
    ELSE IF gpus[i + 1] = VK_PHYSICAL_DEVICE_TYPE_DISCRETE_GPU THEN i
    ELSE useGpu(gpus, i + 1)

\* vkEnumeratePhysicalDevices fills gpus (device types stand for the devices)
vkEnumeratePhysicalDevices(lists) ==
    /\ pc \in {"idle", "instance"}
    /\ log = <<>>
    /\ \E gpus \in lists : log' = <<<<"gpus", gpus>>>>
    /\ pc' = "select"
    /\ UNCHANGED <<running, renderer, appWindows, it, backupContext, currentContext,
                   winVars, gpuVars, rendered, beforeCull, closeAtCull, staleReported,
                   indexAtAcquire, actVars, iterVars, ctorVars, inputVars, semVars, rendVars>>

\* Renderer::selectPhysicalDevice: physicalDevice = gpus[useGpu]
selectPhysicalDevice ==
    /\ pc = "select"
    /\ log' = Append(log, <<"physicalDevice", useGpu(log[1][2], 0)>>)
    /\ handles' = handles \cup {"physicalDevice"}
    /\ pc' = "selected"
    /\ UNCHANGED <<running, renderer, appWindows, it, backupContext, currentContext,
                   winVars, gpuVars, rendered, beforeCull, closeAtCull, staleReported,
                   indexAtAcquire, actVars, iterVars, ctorVars, inputVars, semVars,
                   vulkanDebugReport, shutdownCalls>>

----------------------------------------------------------------------------
(* Renderer::chooseQueueFamilyIndex and Renderer::createDevice on their own *)

\* every list of queueFlags of one to MaxFamilies queue families
FamilyLists == UNION {[1..n -> QueueFlags] : n \in 1..MaxFamilies}

\* queueFlags & VK_QUEUE_GRAPHICS_BIT
HasGraphics(queueFlags) == (queueFlags \div VK_QUEUE_GRAPHICS_BIT) % 2 = 1

\* the search loop from index i (0-based): the index at which it breaks, or the
\* initial UINT32_MAX of queueFamilyIndex when it runs to the end
RECURSIVE findGraphicsFamily(_, _)
findGraphicsFamily(queueProps, i) ==
    IF i >= Len(queueProps) THEN UINT32_MAX
    ELSE IF HasGraphics(queueProps[i + 1]) THEN i
    ELSE findGraphicsFamily(queueProps, i + 1)

\* vkGetPhysicalDeviceQueueFamilyProperties fills queueProps
vkGetPhysicalDeviceQueueFamilyProperties(lists) ==
    /\ \/ pc = "idle" /\ log = <<>>
       \/ pc = "selected"
    /\ \E queueProps \in lists : log' = <<<<"queueProps", queueProps>>>>
    /\ pc' = "choose"
    /\ UNCHANGED <<running, renderer, appWindows, it, backupContext, currentContext,
                   winVars, gpuVars, rendered, beforeCull, closeAtCull, staleReported,
                   indexAtAcquire, actVars, iterVars, ctorVars, inputVars, semVars, rendVars>>

\* Renderer::chooseQueueFamilyIndex.  Its only test of the outcome is
\* assert(queueFamilyIndex != UINT32_MAX), which aborts in a build with
\* assertions and is no code at all in a build with NDEBUG.
chooseQueueFamilyIndex(builds) ==
    /\ pc = "choose"
    /\ \E ndebug \in builds :
         LET queueFamilyIndex == findGraphicsFamily(log[1][2], 0) IN
         /\ log' = Append(log, <<"queueFamilyIndex", queueFamilyIndex>>)
         /\ pc' = IF queueFamilyIndex = UINT32_MAX /\ ~ndebug
                   THEN "aborted" ELSE "chosen"
    /\ UNCHANGED <<running, renderer, appWindows, it, backupContext, currentContext,
                   winVars, gpuVars, rendered, beforeCull, closeAtCull, staleReported,
                   indexAtAcquire, actVars, iterVars, ctorVars, inputVars, semVars, rendVars>>

\* Renderer::createDevice: vkCreateDevice with one queue of family
\* queueFamilyIndex, its result handed to CheckVkResult, then vkGetDeviceQueue
createDevice ==
    /\ pc = "chosen"
    /\ \E err \in CallResults :
         /\ log' = Append(log, <<"vkCreateDevice", err>>)
         /\ pc' = IF CheckVkResult(err) = "abort" THEN "aborted" ELSE "device"
         /\ handles' = IF CheckVkResult(err) = "abort" THEN handles
                        ELSE handles \cup {"device", "queue"}
    /\ UNCHANGED <<running, renderer, appWindows, it, backupContext, currentContext,
                   winVars, gpuVars, rendered, beforeCull, closeAtCull, staleReported,
                   indexAtAcquire, actVars, iterVars, ctorVars, inputVars, semVars,
                   vulkanDebugReport, shutdownCalls>>

----------------------------------------------------------------------------
(* Renderer::Renderer's other steps and Renderer::shutdown *)

\* Renderer::createInstance: vkCreateInstance and, in a build that defines
\* VULKAN_DEBUG_REPORT, vkCreateDebugReportCallbackEXT, each result handed to
\* CheckVkResult
createInstance(builds) ==
    /\ pc = "idle"
    /\ log = <<>>
    /\ handles = {}
    /\ \E debug \in builds, err \in CallResults, errReport \in CallResults :
         /\ vulkanDebugReport' = debug
         /\ IF CheckVkResult(err) = "abort"
            THEN pc' = "aborted" /\ handles' = {}
            ELSE IF debug /\ CheckVkResult(errReport) = "abort"
            THEN pc' = "aborted" /\ handles' = {"instance"}
            ELSE /\ pc' = "instance"
                 /\ handles' = {"instance"} \cup (IF debug THEN {"debugReport"} ELSE {})
    /\ UNCHANGED <<running, renderer, appWindows, it, backupContext, currentContext,
                   winVars, gpuVars, tickVars, actVars, iterVars, ctorVars, inputVars,
                   semVars, shutdownCalls>>

\* Renderer::createDescriptorPool: vkCreateDescriptorPool, its result handed to
\* CheckVkResult; the constructor returns after it
createDescriptorPool ==
    /\ pc = "device"
    /\ \E err \in CallResults :
         /\ log' = Append(log, <<"vkCreateDescriptorPool", err>>)
         /\ pc' = IF CheckVkResult(err) = "abort" THEN "aborted" ELSE "constructed"
         /\ handles' = IF CheckVkResult(err) = "abort" THEN handles
                        ELSE handles \cup {"descriptorPool"}
    /\ UNCHANGED <<running, renderer, appWindows, it, backupContext, currentContext,
                   winVars, gpuVars, rendered, beforeCull, closeAtCull, staleReported,
                   indexAtAcquire, actVars, iterVars, ctorVars, inputVars, semVars,
                   vulkanDebugReport, shutdownCalls>>

\* the driver calls of one Renderer::shutdown, in the order it makes them, when
\* the handles of h are the ones that are not null
ShutdownCalls(h, debug) ==
    (IF "device" \in h THEN <<"vkDeviceWaitIdle">> ELSE <<>>)
    \o (IF "descriptorPool" \in h THEN <<"vkDestroyDescriptorPool">> ELSE <<>>)
    \o (IF "pipelineCache" \in h THEN <<"vkDestroyPipelineCache">> ELSE <<>>)
    \o (IF "device" \in h THEN <<"vkDestroyDevice">> ELSE <<>>)
    \o (IF debug /\ "debugReport" \in h
          THEN <<"vkDestroyDebugReportCallbackEXT">> ELSE <<>>)
    \o (IF "instance" \in h THEN <<"vkDestroyInstance">> ELSE <<>>)

\* the handles one Renderer::shutdown leaves not null: debugReport is reset
\* only in a build that defines VULKAN_DEBUG_REPORT
ShutdownLeaves(h, debug) == IF debug THEN {} ELSE h \cap {"debugReport"}

\* a shutdown that forgets to reset device after destroying it
shutdownKeepsDevice ==
    /\ pc \in {"constructed", "shut"}
    /\ Len(shutdownCalls) < MaxShutdowns
    /\ shutdownCalls' = Append(shutdownCalls, ShutdownCalls(handles, vulkanDebugReport))
    /\ handles' = ShutdownLeaves(handles, vulkanDebugReport) \cup (handles \cap {"device"})
    /\ pc' = "shut"
    /\ UNCHANGED <<running, renderer, appWindows, it, backupContext, currentContext,
                   winVars, gpuVars, tickVars, actVars, iterVars, ctorVars, inputVars,
                   semVars, vulkanDebugReport>>

\* Renderer::shutdown, called on a constructed Renderer by its owner or by
\* ~Renderer, any number of times
shutdown ==
    /\ pc \in {"constructed", "shut"}
    /\ Len(shutdownCalls) < MaxShutdowns
    /\ shutdownCalls' = Append(shutdownCalls, ShutdownCalls(handles, vulkanDebugReport))
    /\ handles' = ShutdownLeaves(handles, vulkanDebugReport)
    /\ pc' = "shut"
    /\ UNCHANGED <<running, renderer, appWindows, it, backupContext, currentContext,
                   winVars, gpuVars, tickVars, actVars, iterVars, ctorVars, inputVars,
                   semVars, vulkanDebugReport>>

----------------------------------------------------------------------------
(* Specifications *)

\* any image of the swapchain may be the next one acquired
AnyImage == [w \in WinIds |-> 0..(ImageCount[w] - 1)]
\* the presentation engine hands images out in turn
NextImage == [w \in WinIds |-> {(FrameIndex[w] + 1) % ImageCount[w]}]

AppLogic ==
    \/ stop
    \/ \E w \in WinIds : close(w)

AppLoop ==
    \/ run
    \/ glfwPollEvents
    \/ cullClosedWindowsExitOnMainDeath
    \/ iterate
    \/ loopTest
    \/ ApplicationDtor
    \/ appWindowsClear

FrameSteps ==
    \/ renderBegin
    \/ frameWaitFence
    \/ frameResetFence
    \/ frameReclaim
    \/ frameResetPool
    \/ frameRecord
    \/ frameSubmit
    \/ renderEnd

\* The frame protocol in full: FrameWindows windows, every driver result, any
\* image order, degenerate and non-degenerate display sizes, and the GPU
\* completing whenever it likes.
Next ==
    \/ addWindow({"idle"}, FrameWindows, {MinImageCount}, FALSE)
    \/ AppLogic
    \/ AppLoop
    \/ FrameSteps
    \/ renderDraw(BOOLEAN)
    \/ frameAcquire(SwapchainResults, AnyImage)
    \/ framePresent(SwapchainResults)
    \/ \E w \in WinIds, s \in 1..MinImageCount : GpuComplete(w, s)

Spec == Init /\ [][Next]_vars

\* The frame protocol of Spec, with the driver's semaphores followed.
NextSem ==
    \/ addWindow({"idle"}, FrameWindows, {MinImageCount}, TRUE)
    \/ AppLogic
    \/ AppLoop
    \/ FrameSteps
    \/ renderDraw(BOOLEAN)
    \/ frameAcquire(SwapchainResults, AnyImage)
    \/ framePresent(SwapchainResults)
    \/ \E w \in WinIds, s \in 1..MinImageCount : GpuComplete(w, s)

SpecSem == Init /\ [][NextSem]_vars

\* The frame protocol over a GPU that completes every batch it was given, sooner
\* or later: FrameWindows windows whose swapchain never goes stale, images
\* acquired in any order.
NextLive ==
    \/ addWindow({"idle"}, FrameWindows, {MinImageCount}, FALSE)
    \/ AppLogic
    \/ AppLoop
    \/ FrameSteps
    \/ renderDraw({TRUE})
    \/ frameAcquire(CallResults, AnyImage)
    \/ framePresent(CallResults)
    \/ \E w \in WinIds, s \in 1..MinImageCount : GpuComplete(w, s)

SpecLive ==
    /\ Init
    /\ [][NextLive]_vars
    /\ \A w \in WinIds, s \in 1..MinImageCount : WF_vars(GpuComplete(w, s))

\* Windows side by side: the loop of an application that is never stopped, over
\* FrameWindows + 1 windows that nobody closes, each with a swapchain that may
\* turn suboptimal at any acquire or present, images handed out in turn, and a
\* GPU that completes a batch when the CPU waits for it.
NextShare ==
    \/ addWindow({"idle"}, FrameWindows + 1, {MinImageCount}, FALSE)
    \/ run
    \/ glfwPollEvents
    \/ cullClosedWindowsExitOnMainDeath
    \/ iterate
    \/ loopTest
    \/ FrameSteps
    \/ renderDraw({TRUE})
    \/ frameAcquire({VK_SUCCESS, VK_SUBOPTIMAL_KHR}, NextImage)
    \/ framePresent({VK_SUCCESS, VK_SUBOPTIMAL_KHR})
    \/ (pc = "wait" /\ GpuComplete(Cur, FrameIndex[Cur] + 1))

SpecShare == Init /\ [][NextShare]_vars

\* Swapchains with more images than asked for: FrameWindows windows whose
\* swapchain holds minImageCount images or up to ExtraImages more, over the
\* environment of SpecApp.
NextImages ==
    \/ addWindow({"idle"}, FrameWindows,
                 MinImageCount..(MinImageCount + ExtraImages), FALSE)
    \/ AppLogic
    \/ AppLoop
    \/ FrameSteps
    \/ renderDraw({TRUE})
    \/ frameAcquire(CallResults, NextImage)
    \/ framePresent(CallResults)
    \/ (pc = "wait" /\ GpuComplete(Cur, FrameIndex[Cur] + 1))

SpecImages == Init /\ [][NextImages]_vars

\* The registry in full: MaxWindows windows and every set of close requests,
\* over visible windows whose swapchain never goes stale and hands its images
\* out in turn, and a GPU that completes a batch when the CPU waits for it.
NextApp ==
    \/ addWindow({"idle"}, MaxWindows, {MinImageCount}, FALSE)
    \/ AppLogic
    \/ AppLoop
    \/ FrameSteps
    \/ renderDraw({TRUE})
    \/ frameAcquire(CallResults, NextImage)
    \/ framePresent(CallResults)
    \/ (pc = "wait" /\ GpuComplete(Cur, FrameIndex[Cur] + 1))

SpecApp == Init /\ [][NextApp]_vars

\* The deferred-free queue in full: application logic enqueues up to MaxActions
\* cleanup actions on any slot of any of FrameWindows windows, over the
\* environment of SpecApp.
NextQueue ==
    \/ addWindow({"idle"}, FrameWindows, {MinImageCount}, FALSE)
    \/ AppLogic
    \/ enqueue
    \/ AppLoop
    \/ FrameSteps
    \/ renderDraw({TRUE})
    \/ frameAcquire(CallResults, NextImage)
    \/ framePresent(CallResults)
    \/ (pc = "wait" /\ GpuComplete(Cur, FrameIndex[Cur] + 1))

SpecQueue == Init /\ [][NextQueue]_vars

\* The deferred-free queue over a registry that culls: the primary window and
\* FrameWindows further windows, otherwise as SpecQueue.
NextDrop ==
    \/ addWindow({"idle"}, FrameWindows + 1, {MinImageCount}, FALSE)
    \/ AppLogic
    \/ enqueue
    \/ AppLoop
    \/ FrameSteps
    \/ renderDraw({TRUE})
    \/ frameAcquire(CallResults, NextImage)
    \/ framePresent(CallResults)
    \/ (pc = "wait" /\ GpuComplete(Cur, FrameIndex[Cur] + 1))

SpecDrop == Init /\ [][NextDrop]_vars

\* The registry under mutation from hooks: as SpecApp, and a window's
\* onUpdate/onRender may call Application::Get().addWindow.
NextMutate ==
    \/ addWindow({"idle", "hooks"}, MaxWindows, {MinImageCount}, FALSE)
    \/ AppLogic
    \/ AppLoop
    \/ FrameSteps
    \/ renderDraw({TRUE})
    \/ frameAcquire(CallResults, NextImage)
    \/ framePresent(CallResults)
    \/ (pc = "wait" /\ GpuComplete(Cur, FrameIndex[Cur] + 1))

SpecMutate == Init /\ [][NextMutate]_vars

\* CheckVkResult over every status code of ResultCodes.
NextCheck ==
    \/ driverResult(ResultCodes)
    \/ callCheckVkResult

SpecCheck == Init /\ [][NextCheck]_vars

\* selectPhysicalDevice over every device list of DeviceLists.
NextSelect ==
    \/ vkEnumeratePhysicalDevices(DeviceLists)
    \/ selectPhysicalDevice

SpecSelect == Init /\ [][NextSelect]_vars

\* chooseQueueFamilyIndex and createDevice over every family list of
\* FamilyLists, in builds with and without assertions.
NextFamily ==
    \/ vkGetPhysicalDeviceQueueFamilyProperties(FamilyLists)
    \/ chooseQueueFamilyIndex(BOOLEAN)
    \/ createDevice

SpecFamily == Init /\ [][NextFamily]_vars

\* The Renderer from its constructor to its shutdown: every step of
\* Renderer::Renderer in a build with or without VULKAN_DEBUG_REPORT and with
\* or without assertions, on a machine with one physical device of any type
\* and any queue families, any driver call failing, then up to MaxShutdowns
\* calls of shutdown.
NextShutdown ==
    \/ createInstance(BOOLEAN)
    \/ (pc = "instance" /\ vkEnumeratePhysicalDevices([{1} -> DeviceTypes]))
    \/ selectPhysicalDevice
    \/ (pc = "selected" /\ vkGetPhysicalDeviceQueueFamilyProperties(FamilyLists))
    \/ chooseQueueFamilyIndex(BOOLEAN)
    \/ createDevice
    \/ createDescriptorPool
    \/ shutdown

SpecShutdown == Init /\ [][NextShutdown]_vars

\* Input: the loop of an application over FrameWindows + 1 windows that nobody
\* closes, with GLFW delivering input callbacks to any of them at the top of a
\* tick, and every acquire and present succeeding.
NextInput ==
    \/ addWindow({"idle"}, FrameWindows + 1, {MinImageCount}, FALSE)
    \/ run
    \/ glfwPollEvents
    \/ inputCallback
    \/ cullClosedWindowsExitOnMainDeath
    \/ iterate
    \/ loopTest
    \/ FrameSteps
    \/ renderDraw({TRUE})
    \/ frameAcquire({VK_SUCCESS}, NextImage)
    \/ framePresent({VK_SUCCESS})
    \/ (pc = "wait" /\ GpuComplete(Cur, FrameIndex[Cur] + 1))

SpecInput == Init /\ [][NextInput]_vars

----------------------------------------------------------------------------
(* Properties *)

\* positions inside Window::render, where Cur is the window being rendered
RenderPcs == {"hooks", "acquire", "wait", "resetFence", "reclaim", "resetPool",
              "record", "submit", "present", "restore"}

\* positions of a tick after its cull
InTick == pc \in RenderPcs \cup {"iter", "render", "loop"}

\* the cull has just returned
JustCulled == pc = "iter" /\ it = 1

\* the primary window had close requested when the latest cull ran
MainDeath == beforeCull # <<>> /\ beforeCull[1] \in closeAtCull

\* C1: once a cull has found the primary (index 0) window close-requested, the
\* running flag is false for the rest of that tick and run() never reaches the
\* poll or the cull of another tick, however many other windows there are.
C1_PrimaryCloseStopsInTick ==
    MainDeath => (~running /\ pc \notin {"poll", "cull"})

\* run() has returned after the primary closed, with another window still open
C1_Witness ==
    /\ MainDeath
    /\ pc = "returned"
    /\ \E j \in 2..Len(appWindows) : appWindows[j] \notin closeAtCull

\* C2: after a cull in which the primary window did not request close, no
\* window that had close requested when the cull started is left in the registry.
C2_ClosersRemoved ==
    (JustCulled /\ beforeCull # <<>> /\ beforeCull[1] \notin closeAtCull)
        => Range(appWindows) \cap closeAtCull = {}

\* C3: when exactly one window, a non-primary one, has close requested at the
\* cull, the registry after the cull is the registry before it without that
\* window, the others in their order, and the running flag is still true.
C3_SingleCloseRemovesOnlyIt ==
    JustCulled =>
        \A k \in 2..Len(beforeCull) :
            closeAtCull = {beforeCull[k]} =>
                (appWindows = RemoveAt(beforeCull, k) /\ running)

\* a window in the middle of a registry of three or more was the one culled
C3_Witness ==
    /\ JustCulled
    /\ Len(beforeCull) >= 3
    /\ closeAtCull = {beforeCull[2]}
    /\ Len(appWindows) = Len(beforeCull) - 1

\* C4: in every tick, the windows render() has been called on are an initial
\* stretch of the registry the cull left, each once and in registry order, none
\* of them a window the cull removed; at the end of the tick they are all of it.
C4_RenderOncePerRemainingWindow ==
    InTick =>
        /\ Len(rendered) <= Len(appWindows)
        /\ rendered = SubSeq(appWindows, 1, Len(rendered))
        /\ Range(rendered) \cap (Range(beforeCull) \ Range(appWindows)) = {}
        /\ pc = "loop" => rendered = appWindows

\* a tick ends with two or more windows rendered after its cull removed one
C4_Witness ==
    /\ pc = "loop"
    /\ Len(rendered) >= 2
    /\ Len(beforeCull) > Len(appWindows)

\* C5: in frameRender the command pool of the acquired slot is reset, and its
\* command buffer recorded, only after the wait on that slot's fence returned
\* VK_SUCCESS in the same call, and while no command buffer of that slot is
\* still executing on the GPU.
C5_PoolResetAfterFenceWait ==
    /\ pc \in {"resetPool", "record", "submit"} =>
           /\ \E j \in 1..Len(log) : log[j] = <<"wait", VK_SUCCESS>>
           /\ ~busy[Cur][FrameIndex[Cur] + 1]
    /\ \A i \in 1..Len(log) :
           log[i][1] \in {"resetPool", "record"} =>
               \E j \in 1..(i - 1) : log[j] = <<"wait", VK_SUCCESS>>

\* a slot's pool has been reset while the window's other slot is still on the GPU
C5_Witness ==
    /\ pc = "record"
    /\ \E s \in DOMAIN busy[Cur] : busy[Cur][s]

\* C6: a cleanup action runs only after a fence-wait on its slot succeeded after
\* it was enqueued, runs at most once, actions of one slot run in the order they
\* were enqueued, and the slot's queue is empty right after the reclaim step.
C6_DeferredFreeDiscipline ==
    /\ \A k \in 1..Len(executed) : executed[k] \in waited
    /\ \A j \in 1..Len(executed), k \in 1..Len(executed) :
           j < k =>
               /\ executed[j] # executed[k]
               /\ actSlot[executed[j]] = actSlot[executed[k]] =>
                      executed[j] < executed[k]
    /\ \A w \in WinIds : QueuedIn(w) \cap Range(executed) = {}
    /\ pc = "resetPool" /\ FrameIndex[Cur] + 1 <= Len(resourceFreeQueue[Cur]) =>
           resourceFreeQueue[Cur][FrameIndex[Cur] + 1] = <<>>

\* two actions enqueued on the same slot have both run, the reclaim just done
C6_Witness ==
    /\ pc = "resetPool"
    /\ \E j \in 1..Len(executed), k \in 1..Len(executed) :
           j < k /\ actSlot[executed[j]] = actSlot[executed[k]]

\* C7: every enqueued cleanup action gets executed, also those still queued
\* when their window is destroyed: while the application lives, no window has
\* been destroyed with an action of its queue not executed.
C7_EveryActionRuns ==
    pc \notin {"exited", "crashed", "aborted"} =>
        \A a \in 1..(nextAction - 1) :
            wstate[actSlot[a][1]] = "destroyed" => a \in Range(executed)

\* C8: the needs-rebuild flag never stays set across an Acquire: whenever
\* frameRender is about to acquire, the flag is clear (the surface was rebuilt).
C8_RebuiltBeforeAcquire ==
    pc = "acquire" => ~swapchainNeedRebuild[Cur]

\* C9: a render() in which acquire or present reported "out of date" or
\* "suboptimal" does not abort and makes no present call that succeeds, and the
\* needs-rebuild flag is true from the report until the window's next render().
C9_StalenessIsRecovered ==
    /\ \A w \in WinIds : staleReported[w] => swapchainNeedRebuild[w]
    /\ pc \in RenderPcs /\ staleReported[Cur] =>
           \A j \in 1..Len(log) : log[j][1] = "present" => IsStale(log[j][2])
    /\ pc = "aborted" /\ log # <<>> => ~staleReported[Cur]

\* the window's next render() is about to start after one that reported staleness
C9_Witness ==
    /\ pc = "render"
    /\ staleReported[Cur]
    /\ swapchainNeedRebuild[Cur]

\* C10: when acquire reports "out of date" or "suboptimal", the rest of that
\* render() makes no further call (no fence wait or reset, no reclaim, no pool
\* reset, no submit, no present), and leaves the semaphore index and the
\* acquired frame index as they were: only the needs-rebuild flag changes.
C10_StaleAcquireChangesOnlyFlag ==
    (pc \in {"present", "restore"} /\ log # <<>> /\ log[1][1] = "acquire"
        /\ IsStale(log[1][2])) =>
        /\ Len(log) = 1
        /\ swapchainNeedRebuild[Cur]
        /\ SemaphoreIndex[Cur] = indexAtAcquire[2]
        /\ FrameIndex[Cur] = indexAtAcquire[1]

\* C11: every render() in which a command buffer was submitted (acquire did not
\* report staleness and no step aborted) also makes the present call for the
\* acquired image before it returns.
C11_SubmittedFrameIsPresented ==
    (pc = "restore" /\ \E j \in 1..Len(log) : log[j][1] = "submit") =>
        \E k \in 1..Len(log) : log[k][1] = "present"

\* C12: a render() whose draw data has a degenerate display size goes from the
\* hooks straight to the context restore with the 5 ms sleep as its only call
\* (no acquire, submit or present), and no step of that path (entry, hooks,
\* sleep, exit) changes needs-rebuild, the semaphore index, the frame index
\* or a fence.
C12_DegenerateSizeSleeps ==
    [][/\ (pc = "hooks" /\ pc' = "restore") =>
              /\ log = <<>>
              /\ log' = <<<<"sleep", VK_SUCCESS>>>>
              /\ UNCHANGED <<swapchainNeedRebuild, SemaphoreIndex, FrameIndex, fence>>
       /\ (pc \in {"render", "hooks"} /\ pc' = "hooks") =>
              /\ log' = <<>>
              /\ UNCHANGED <<swapchainNeedRebuild, SemaphoreIndex, FrameIndex>>
       /\ (pc = "restore" /\ pc' = "iter") =>
              UNCHANGED <<swapchainNeedRebuild, SemaphoreIndex, FrameIndex>>]_vars

\* a window that presented a frame before is now minimised and sleeps
C12_Witness ==
    /\ pc = "restore"
    /\ log = <<<<"sleep", VK_SUCCESS>>>>
    /\ SemaphoreIndex[Cur] > 0

\* C13: whenever the Renderer has been destroyed, no Window is alive: every
\* window of the registry was destroyed before the Renderer, while the Renderer
\* it borrows was still there.
C13_WindowsDestroyedBeforeRenderer ==
    ~renderer => \A w \in WinIds : wstate[w] # "alive"

\* C14: the range-for of a tick never dereferences an iterator that a hook's
\* addWindow has invalidated: whenever run() has just taken the next window
\* from the registry to call render() on it, its iterators are valid, and the
\* process has not crashed on the dereference.
C14_IterationToleratesMutation ==
    /\ pc = "render" => itValid
    /\ pc = "crashed" => itValid

\* C15: run() entered while the running flag is false returns at once: the
\* step leaves every variable but the position unchanged (no poll, no cull, no
\* render).
C15_RunWhenStoppedIsNoOp ==
    [][(pc = "idle" /\ ~running /\ pc' \notin {"idle", "crashed", "aborted"}) =>
           /\ pc' = "returned"
           /\ UNCHANGED <<running, renderer, appWindows, it, backupContext,
                          currentContext, winVars, gpuVars, tickVars, actVars,
                          iterVars, ctorVars, inputVars, semVars, rendVars>>]_vars

\* run() has returned over a registry with a window and no tick has ever run
C15_Witness ==
    /\ pc = "returned"
    /\ ~running
    /\ appWindows # <<>>
    /\ beforeCull = <<>>
    /\ rendered = <<>>

\* C16: the running flag never goes from false to true, whatever operation runs.
C16_StoppedIsTerminal ==
    [][~running => ~running']_vars

\* the primary window closed, the flag went false, and the windows of that tick
\* were rendered after it
C16_Witness ==
    /\ ~running
    /\ pc = "loop"
    /\ MainDeath
    /\ rendered # <<>>

\* C17: once the running flag is false, run() is never at the event poll or the
\* cull of a tick again, and the loop test at the end of the tick in progress
\* makes run() return.
C17_NoTickAfterStop ==
    [][/\ ~running' => pc' \notin {"poll", "cull"}
       /\ (pc = "loop" /\ ~running) => pc' = "returned"]_vars

\* run() has returned because a hook called stop(): the primary window is open
C17_Witness ==
    /\ pc = "returned"
    /\ ~running
    /\ beforeCull # <<>>
    /\ ~MainDeath
    /\ rendered = appWindows

\* C18: CheckVkResult on code 0 returns without printing; on a code above 0
\* it prints and returns; on a code below 0 it prints and aborts.
C18_CheckVkResultBySign ==
    (pc \in {"checked", "aborted"} /\ log # <<>> /\ log[1][1] = "call") =>
        LET result == log[1][2] IN
        /\ result = 0 => (pc = "checked" /\ log = <<<<"call", result>>>>)
        /\ result > 0 =>
               (pc = "checked" /\ log = <<<<"call", result>>, <<"print", result>>>>)
        /\ result < 0 =>
               (pc = "aborted" /\ log = <<<<"call", result>>, <<"print", result>>>>)

\* a positive code (here the suboptimal one) was printed and the call returned
C18_Witness ==
    /\ pc = "checked"
    /\ log = <<<<"call", VK_SUBOPTIMAL_KHR>>, <<"print", VK_SUBOPTIMAL_KHR>>>>

\* the driver calls of the frame protocol, as the log names them
FrameOps == {"acquire", "wait", "resetFence", "resetPool", "record", "submit",
             "present"}

\* C19: a negative status from a call of the frame protocol, other than a
\* staleness code from acquire or present, is the last call of the process: it
\* has aborted, and no later step was executed.
C19_NegativeStatusAborts ==
    \A j \in 1..Len(log) :
        (/\ log[j][1] \in FrameOps
         /\ log[j][2] < 0
         /\ ~(log[j][1] \in {"acquire", "present"} /\ IsStale(log[j][2]))) =>
            (j = Len(log) /\ pc = "aborted")

\* the process aborted on a failed command-buffer recording, after the steps before it
C19_Witness ==
    /\ pc = "aborted"
    /\ Len(log) >= 2
    /\ log[Len(log)] = <<"record", VK_ERROR_DEVICE_LOST>>

\* C20: Window construction leaves the current GUI context as it found it;
\* Window::render leaves the context it saved at entry current when it returns;
\* and the current context never points at the context of a destroyed window.
C20_ContextRestored ==
    [][/\ Len(appWindows') > Len(appWindows) => currentContext' = currentContext
       /\ (pc = "restore" /\ pc' = "iter") => currentContext' = backupContext
       /\ currentContext' # NullContext => imguiContext'[currentContext']]_vars

\* C21: whenever a window's onUpdate/onRender hooks run, the current GUI
\* context is that window's own context, and that context is alive.
C21_HooksSeeOwnContext ==
    pc = "hooks" => (currentContext = Cur /\ imguiContext[Cur])

\* the hooks of a non-primary window run, the context having been switched from
\* another window's
C21_Witness ==
    /\ pc = "hooks"
    /\ it >= 2
    /\ backupContext # NullContext
    /\ backupContext # Cur
    /\ currentContext = Cur

\* C22: for a non-empty device list, selectPhysicalDevice selects the discrete
\* GPU of lowest enumeration index when the list has a discrete GPU, and the
\* device at index 0 when it has none.
C22_FirstDiscreteElseFirst ==
    pc = "selected" =>
        LET gpus == log[1][2]
            selected == log[2][2]
            discrete == {i \in 0..(Len(gpus) - 1) :
                            gpus[i + 1] = VK_PHYSICAL_DEVICE_TYPE_DISCRETE_GPU}
        IN  IF discrete # {}
            THEN selected \in discrete /\ \A i \in discrete : selected <= i
            ELSE selected = 0

\* an integrated GPU first, then two discrete ones: the first discrete is selected
C22_Witness ==
    /\ pc = "selected"
    /\ log = <<<<"gpus", <<1, VK_PHYSICAL_DEVICE_TYPE_DISCRETE_GPU,
                           VK_PHYSICAL_DEVICE_TYPE_DISCRETE_GPU>>>>,
               <<"physicalDevice", 1>>>>

\* Application::init created no renderer (before ~Application, a null renderer
\* means just that)
InitFailed == ~renderer /\ pc \notin {"clear", "exited", "crashed", "aborted"}

C24_SemaphoreIndexRing ==
    [][/\ \A w \in WinIds : SemaphoreIndex'[w] \in 0..(SemaphoreCount(w) - 1)
       /\ IF pc = "present" /\ pc' = "restore" /\ log' = Append(log, <<"present", VK_SUCCESS>>)
          THEN SemaphoreIndex' = [SemaphoreIndex EXCEPT ![Cur] =
                                     (SemaphoreIndex[Cur] + 1) % SemaphoreCount(Cur)]
          ELSE UNCHANGED SemaphoreIndex]_vars

\* a present succeeded with the index at SemaphoreCount-1, which wrapped to 0
C24_Witness ==
    /\ pc = "restore"
    /\ log # <<>>
    /\ log[Len(log)] = <<"present", VK_SUCCESS>>
    /\ indexAtAcquire[2] = SemaphoreCount(Cur) - 1
    /\ SemaphoreIndex[Cur] = 0

\* C25: a step that lengthens the registry appends one window at its end, and
\* while the application stays running the window at index 0 stays the same
\* window, whatever is added or culled.
C25_PrimaryStaysPrimary ==
    [][/\ Len(appWindows') > Len(appWindows) =>
              /\ Len(appWindows') = Len(appWindows) + 1
              /\ SubSeq(appWindows', 1, Len(appWindows)) = appWindows
       /\ (appWindows # <<>> /\ running') =>
              (appWindows' # <<>> /\ appWindows'[1] = appWindows[1])]_vars

\* a tick starts, still running, after a cull that removed a non-primary window
\* and left the primary and another one
C25_Witness ==
    /\ pc = "poll"
    /\ running
    /\ Len(appWindows) >= 2
    /\ Len(beforeCull) > Len(appWindows)
    /\ appWindows[1] = beforeCull[1]

\* C27: when the device and queue family cannot present to the new window's
\* surface, setupWindow aborts right after the support query: a query answered
\* VK_FALSE is the last call of the constructor and the process has aborted;
\* format selection, present-mode selection and swapchain creation only ever
\* follow a query answered VK_TRUE.
C27_NoWsiAbortsSetup ==
    \A i \in 1..Len(setupCalls) :
        /\ setupCalls[i] = "surfaceSupport=VK_FALSE" =>
               i = Len(setupCalls) /\ pc = "aborted"
        /\ setupCalls[i] \in {"selectSurfaceFormat", "selectPresentMode",
                              "createOrResizeWindow"} =>
               /\ i > 2
               /\ setupCalls[2] = "surfaceSupport=VK_TRUE"

\* a second window was refused for want of presentation support
C27_Witness ==
    /\ pc = "aborted"
    /\ Len(appWindows) >= 1
    /\ setupCalls = <<"createSurface", "surfaceSupport=VK_FALSE">>

\* the eight driver steps of one frame, in the order of frameRender and
\* framePresent
FrameOrder ==
    <<"acquire", "wait", "resetFence", "reclaim", "resetPool", "record", "submit",
      "present">>

\* C28: the driver steps of one render() are a prefix of acquire, fence wait,
\* fence reset, reclaim, pool reset, record, submit, present: each step at most
\* once, in that order, and a step is made only after every earlier one returned
\* VK_SUCCESS.  A render() that sleeps on a degenerate size makes no step.
C28_FrameStepsInOrder ==
    /\ (log # <<>> /\ log[1][1] = "sleep") => Len(log) = 1
    /\ (log # <<>> /\ log[1][1] # "sleep") =>
           /\ Len(log) <= Len(FrameOrder)
           /\ \A j \in 1..Len(log) :
                  /\ log[j][1] = FrameOrder[j]
                  /\ j < Len(log) => log[j][2] = VK_SUCCESS

\* a render() made all eight steps and presented
C28_Witness ==
    /\ pc = "restore"
    /\ Len(log) = Len(FrameOrder)
    /\ \A j \in 1..Len(log) : log[j] = <<FrameOrder[j], VK_SUCCESS>>

\* C29: submit and present use the semaphore pair the acquire used, and a
\* semaphore handed to the driver for signaling carries no pending signal: the
\* image-acquired semaphore when vkAcquireNextImageKHR is about to be called,
\* the render-complete semaphore when vkQueueSubmit is about to be called.
C29_SemaphoresPaired ==
    /\ pc \in {"submit", "present"} /\ log # <<>> =>
           indexAtAcquire[2] = SemaphoreIndex[Cur]
    /\ pc = "acquire" => ~imageAcquired[Cur][SemaphoreIndex[Cur] + 1]
    /\ pc = "submit" => ~renderComplete[Cur][SemaphoreIndex[Cur] + 1]

\* C26: a step of one window's render() leaves every other window's rebuild
\* flag, semaphore index, frame index, deferred-free queue, fences and
\* semaphores as they were, and leaves the shared renderer in place.
C26_RenderTouchesOnlyItsWindow ==
    [][(pc \in RenderPcs \cup {"render"}) =>
          /\ renderer' = renderer
          /\ UNCHANGED setupCalls
          /\ \A w \in WinIds \ {Cur} :
                 /\ swapchainNeedRebuild'[w] = swapchainNeedRebuild[w]
                 /\ SemaphoreIndex'[w] = SemaphoreIndex[w]
                 /\ FrameIndex'[w] = FrameIndex[w]
                 /\ resourceFreeQueue'[w] = resourceFreeQueue[w]
                 /\ fence'[w] = fence[w]
                 /\ imageAcquired'[w] = imageAcquired[w]
                 /\ renderComplete'[w] = renderComplete[w]]_vars

\* a window's render() ends having found its swapchain stale, next to a window
\* that has presented and still has a clean flag
C26_Witness ==
    /\ pc = "restore"
    /\ staleReported[Cur]
    /\ swapchainNeedRebuild[Cur]
    /\ \E w \in Range(appWindows) \ {Cur} :
           /\ ~swapchainNeedRebuild[w]
           /\ SemaphoreIndex[w] > 0

\* C30: when frameRender reclaims, resourceFreeQueue (and allocatedCommandBuffers,
\* sized alike) has a slot for the image index just acquired.
C30_SlotForEveryImage ==
    pc = "reclaim" => FrameIndex[Cur] + 1 <= Len(resourceFreeQueue[Cur])

\* C31: a slot whose submitted batch is still on the GPU has its fence pending,
\* a submit is made only on a slot with nothing in flight, and so a window never
\* has more batches in flight than it has frame slots.
C31_OneSubmissionPerSlot ==
    [][/\ \A w \in WinIds : \A s \in DOMAIN busy[w] :
              busy[w][s] => fence[w][s] = "pending"
       /\ (pc = "submit" /\ pc' = "present") =>
              /\ ~busy[Cur][FrameIndex[Cur] + 1]
              /\ busy'[Cur][FrameIndex[Cur] + 1]
              /\ Cardinality({s \in DOMAIN busy'[Cur] : busy'[Cur][s]})
                     <= ImageCount[Cur]]_vars

\* a submit has put a batch in flight on every slot of the window at once
C31_Witness ==
    /\ pc = "present"
    /\ log # <<>>
    /\ log[Len(log)] = <<"submit", VK_SUCCESS>>
    /\ \A s \in DOMAIN busy[Cur] : busy[Cur][s]

\* C32: a fence is unsignaled only between its reset and the submit of the
\* same frameRender call (or in a process that has terminated), so a fence-wait
\* never meets a fence nobody will signal; and under a GPU that completes what
\* it was given, a fence-wait in progress gets its fence signaled (or is left).
C32_FenceWaitReturns ==
    /\ [](\A w \in WinIds : \A s \in DOMAIN fence[w] :
             fence[w][s] = "unsignaled" =>
                 \/ pc \in {"aborted", "crashed"}
                 \/ /\ pc \in {"reclaim", "resetPool", "record", "submit"}
                    /\ w = Cur
                    /\ s = FrameIndex[Cur] + 1)
    /\ (pc = "wait") ~> (pc # "wait" \/ fence[Cur][FrameIndex[Cur] + 1] = "signaled")

\* frameRender waits on a fence whose batch the GPU has not completed yet
C32_Witness ==
    /\ pc = "wait"
    /\ fence[Cur][FrameIndex[Cur] + 1] = "pending"

\* C33: a window's needs-rebuild flag is false when the window has been
\* constructed, and a step that sets it is that window's own acquire or present
\* call returning "out of date" or "suboptimal".
C33_FlagSetOnlyByStaleness ==
    [][\A w \in WinIds :
          /\ (wstate[w] = "none" /\ wstate'[w] = "alive") => ~swapchainNeedRebuild'[w]
          /\ (~swapchainNeedRebuild[w] /\ swapchainNeedRebuild'[w]) =>
                 /\ pc \in {"acquire", "present"}
                 /\ w = Cur
                 /\ \E err \in {VK_SUBOPTIMAL_KHR, VK_ERROR_OUT_OF_DATE_KHR} :
                        log' = Append(log, <<pc, err>>)]_vars

\* a present call has just reported staleness and set the flag of a window whose
\* acquire had succeeded
C33_Witness ==
    /\ pc = "restore"
    /\ swapchainNeedRebuild[Cur]
    /\ Len(log) = Len(FrameOrder)
    /\ log[1] = <<"acquire", VK_SUCCESS>>
    /\ IsStale(log[Len(log)][2])

\* C34: in every tick, no window that had close requested when the tick's cull
\* ran has render() called on it.
C34_NoRenderAfterCloseRequest ==
    InTick => Range(rendered) \cap closeAtCull = {}

\* C35: a cull that found the primary window close-requested leaves the registry
\* exactly as it was, whichever other windows had close requested too.
C35_PrimaryCloseCullsNothing ==
    (JustCulled /\ MainDeath) => appWindows = beforeCull

\* the primary window and another window had both requested close at a cull
C35_Witness ==
    /\ JustCulled
    /\ MainDeath
    /\ Cardinality(closeAtCull) >= 2
    /\ Len(appWindows) >= 3

\* C36: in every window destructor, each call that releases something of the
\* window (the GUI backends, the GUI context, the platform window, the helper
\* struct) comes after a wait for the device to go idle; and no batch of a
\* destroyed window is still executing.
C36_WaitIdleBeforeRelease ==
    /\ \A i \in 1..Len(dtorCalls) :
           dtorCalls[i] # "vkDeviceWaitIdle(no device)" /\
           (dtorCalls[i] \in {"ImGui_ImplVulkan_Shutdown", "ImGui_ImplGlfw_Shutdown",
                              "DestroyContext", "glfwDestroyWindow",
                              "delete imguiWindow"} =>
               \E j \in 1..(i - 1) : dtorCalls[j] = "vkDeviceWaitIdle(device)")
    /\ \A w \in WinIds : wstate[w] = "destroyed" =>
           \A s \in DOMAIN busy[w] : ~busy[w][s]

\* C37: a destroyed window has none of its Vulkan objects left live, and once
\* the renderer (and with it the device) is destroyed no window has any.
C37_NoResourceOutlivesWindow ==
    /\ \A w \in WinIds : wstate[w] = "destroyed" => gpuResources[w] = {}
    /\ (~renderer /\ pc \in {"clear", "exited"}) =>
           \A w \in WinIds : gpuResources[w] = {}

\* C38: once chooseQueueFamilyIndex has run, the chosen index is the lowest
\* index of a family with the graphics bit when there is one, and when there is
\* none the process has aborted with no vkCreateDevice call made.
C38_LowestGraphicsFamilyOrAbort ==
    (Len(log) >= 2 /\ log[1][1] = "queueProps") =>
        LET queueProps == log[1][2]
            chosen == log[2][2]
            graphics == {i \in 0..(Len(queueProps) - 1) : queueProps[i + 1] % 2 = 1}
        IN  IF graphics # {}
            THEN chosen \in graphics /\ \A i \in graphics : chosen <= i
            ELSE pc = "aborted" /\ Len(log) = 2

\* C39: a GLFW input callback for a window appends its events to the input
\* queue of that window's ImGui context only, whichever context is current:
\* the queues of the other contexts and the current-context selection stay as
\* they were.
C39_InputGoesToOwnContext ==
    [][(pc = "poll" /\ pc' = "poll"
          /\ (delivered' # delivered \/ inputEvents' # inputEvents))
        => /\ delivered' # <<>>
           /\ LET w == delivered'[1]
              IN  /\ inputEvents'[w] =
                        inputEvents[w]
                          \o CallbackEvents(delivered'[2], delivered'[3], delivered'[4])
                  /\ \A c \in WinIds \ {w} :
                        inputEvents'[c] = inputEvents[c]
           /\ currentContext' = currentContext]_vars

C39_Witness ==
    /\ pc = "poll"
    /\ delivered # <<>>
    /\ currentContext # NullContext
    /\ delivered[1] # currentContext
    /\ inputEvents[delivered[1]] # <<>>
    /\ inputEvents[currentContext] = <<>>

\* the position of a call in the calls of one shutdown, 0 when it is not made
CallAt(calls, name) ==
    IF \E i \in 1..Len(calls) : calls[i] = name
    THEN CHOOSE i \in 1..Len(calls) : calls[i] = name
    ELSE 0

\* C40: the first Renderer::shutdown of a constructed Renderer waits for the
\* device before any other call, destroys the descriptor pool (and the pipeline
\* cache when there is one) before the device and the device before the
\* instance; every shutdown leaves every handle null and every later shutdown
\* makes no driver call at all.
C40_ShutdownOrderedAndIdempotent ==
    (shutdownCalls # <<>>) =>
        LET calls == shutdownCalls[1] IN
        /\ calls[1] = "vkDeviceWaitIdle"
        /\ \A i \in 2..Len(calls) : calls[i] # "vkDeviceWaitIdle"
        /\ 0 < CallAt(calls, "vkDestroyDescriptorPool")
        /\ CallAt(calls, "vkDestroyDescriptorPool") < CallAt(calls, "vkDestroyDevice")
        /\ CallAt(calls, "vkDestroyPipelineCache") < CallAt(calls, "vkDestroyDevice")
        /\ CallAt(calls, "vkDestroyDevice") < CallAt(calls, "vkDestroyInstance")
        /\ handles = {}
        /\ \A n \in 2..Len(shutdownCalls) : shutdownCalls[n] = <<>>

C40_Witness ==
    /\ Len(shutdownCalls) >= 2
    /\ vulkanDebugReport
    /\ Len(shutdownCalls[1]) = 5
    /\ shutdownCalls[2] = <<>>
    /\ handles = {}

====
